---- MODULE Spec2Model ----
(***************************************************************************)
(* Model of the ext4 image writer (src/src/lib.rs, src/src/file_tree.rs,   *)
(* src/src/ext4_h.rs).                                                     *)
(*                                                                         *)
(* Representation choices:                                                 *)
(*  - file contents are carried by their length in bytes; the layout never *)
(*    looks at the bytes themselves;                                       *)
(*  - a UsageBitmap's byte vector is carried as the set of maximal         *)
(*    half-open intervals <<lo, hi>> of set bits;                          *)
(*  - a path is the sequence of components that split('/') yields, empty   *)
(*    components included: "a/b" is <<"a","b">>, "a/" is <<"a","">>,       *)
(*    "/a" is <<"","a">> and "" is <<"">>;                                 *)
(*  - the staging tree is the sequence of all entries in creation order;   *)
(*    an entry names its parent directory (0 is the root), so the Vec of a *)
(*    directory is the subsequence of entries having that parent;          *)
(*  - max_size is carried in MiB (TLC integers are 32 bit wide and the     *)
(*    128 GiB of the repository's tests do not fit in bytes);              *)
(*  - the device is the log of the writes it received, in order;           *)
(*  - `self` is the writer an operator is handed; Let(e, LAMBDA x : ..)    *)
(*    is Rust's `let x = e; ..`: e is evaluated once, in program order.    *)
(***************************************************************************)
EXTENDS Integers, Sequences, FiniteSets, TLC

\* ---------------------------------------------------------------- bounds

\* number of facade calls (write_file, mkdir, mkdir_p) before finalize
MaxCalls == 2
\* depth of the deepest path handed to mkdir_p
DeepLen == 6
\* the device may fail at one of the first MaxFailAt write_block calls of a
\* facade call, or at the last one
MaxFailAt == 1

\* ------------------------------------------------------ program constants

BLOCK_SIZE == 4096
Ext4Inode_SIZE == 256
Ext4BlockGroupDescriptor_SIZE == 64
Ext4ExtAttrEntryData_SIZE == 20
Ext4DirEntryMeta_SIZE == 8
Ext4DirEntryTail_SIZE == 12
Ext4ExtentHeader_SIZE == 12
Ext4ExtentLeafNode_SIZE == 12
MAX_LEN == 32768
MAX_INLINE_BLOCKS == MAX_LEN * 4
MAX_INLINE_SIZE_BLOCK == 60
MAX_INLINE_SIZE_XATTR == 96 - Ext4ExtAttrEntryData_SIZE - 4 - 4
MAX_INLINE_SIZE == MAX_INLINE_SIZE_BLOCK + MAX_INLINE_SIZE_XATTR
s_blocks_per_group == 32768
EXT4_EXTENTS_FLAG == 524288
EXT4_INLINE_DATA_FL == 268435456

MiB == 1024 * 1024
BitsPerBlock == BLOCK_SIZE * 8

\* ------------------------------------------------------------- arithmetic

\* `let x = e; body(x)`: e is evaluated once and body is handed its value
Let(e, body(_)) == CHOOSE r \in {body(x) : x \in {e}} : TRUE

\* calculate_checksum!: the crc32c over the items in turn, kept as the
\* items it covers: two checksums are equal exactly when they cover the
\* same bytes
calculate_checksum(items) == [crc32c |-> items]

\* the value 0 of a checksum field that has not been computed
zero_checksum == [crc32c |-> <<>>]

\* `as u16`: the low half of a checksum
as_u16(checksum) == [lo16 |-> checksum]

div_ceil(a, b) == (a + b - 1) \div b

Min2(a, b) == IF a <= b THEN a ELSE b
Max2(a, b) == IF a >= b THEN a ELSE b

SetMin(S) == CHOOSE x \in S : \A y \in S : x <= y
SetMax(S) == CHOOSE x \in S : \A y \in S : x >= y

RECURSIVE SumSeq(_)
SumSeq(seq) ==
    Let(seq, LAMBDA s : IF s = <<>> THEN 0 ELSE Head(s) + SumSeq(Tail(s)))

Front(s) == SubSeq(s, 1, Len(s) - 1)
Last(s) == s[Len(s)]

\* ------------------------------------------------------------ UsageBitmap

\* the bits of [lo, hi) are set in addition to those of data
SetBits(data, lo, hi) ==
    IF hi <= lo THEN data
    ELSE Let({r \in data : r[1] <= hi /\ lo <= r[2]}, LAMBDA touching :
             (data \ touching)
                 \cup {<<SetMin({lo} \cup {r[1] : r \in touching}),
                         SetMax({hi} \cup {r[2] : r \in touching})>>})

BitIsSet(data, n) == \E r \in data : r[1] <= n /\ n < r[2]

RECURSIVE SumLen(_)
SumLen(ranges) ==
    Let(ranges, LAMBDA rs :
        IF rs = {} THEN 0
        ELSE Let(CHOOSE x \in rs : TRUE, LAMBDA r :
                 (r[2] - r[1]) + SumLen(rs \ {r})))

\* the bits of data that lie in [lo, hi), re-based to lo
Slice(data, lo, hi) ==
    {<<Max2(r[1], lo) - lo, Min2(r[2], hi) - lo>> :
        r \in {x \in data : x[1] < hi /\ lo < x[2]}}

\* number of set bits in [lo, hi)
CountBits(data, lo, hi) == SumLen(Slice(data, lo, hi))

UsageBitmap_default == [data |-> {}, next_free |-> 0]

mark_used(ub, block_num) ==
    [ub EXCEPT !.data = SetBits(@, block_num, block_num + 1)]

\* variant: the cursor advances but the bits are not recorded
allocate_unmarked(self, n) ==
    Let(self, LAMBDA ub :
        [ub  |-> [data |-> ub.data, next_free |-> ub.next_free + n],
         v   |-> [start |-> ub.next_free, end |-> ub.next_free + n]])

allocate(self, n) ==
    Let(self, LAMBDA ub :
        [ub  |-> [data |-> SetBits(ub.data, ub.next_free, ub.next_free + n),
                  next_free |-> ub.next_free + n],
         v   |-> [start |-> ub.next_free, end |-> ub.next_free + n]])

\* BitmapBlock::from_bytes: the 4096 bytes of the slice, the bits from len
\* on forced to one
BitmapBlock_from_bytes(slice, len) ==
    [data |-> SetBits(slice, len, BitsPerBlock), len |-> len]

\* the snapshot reads the bytes [block_group * 4096, (block_group+1) * 4096)
get_for_block_group(ub, block_group, len) ==
    BitmapBlock_from_bytes(
        Slice(ub.data, block_group * BLOCK_SIZE * 8,
                       (block_group + 1) * BLOCK_SIZE * 8), len)

free_count(bm) == bm.len - CountBits(bm.data, 0, bm.len)

Allocation_from_start_len(start, len) == [start |-> start, end |-> start + len]

\* ---------------------------------------------------------- staging tree

DirNode(parent, name) ==
    [parent |-> parent, name |-> name, is_dir |-> TRUE, inode |-> 0]
FileNode(parent, name, inode) ==
    [parent |-> parent, name |-> name, is_dir |-> FALSE, inode |-> inode]

Directory_default == <<>>

\* Directory::entries: the ids of the entries of directory d, in the order
\* in which they were pushed
entries(tree, d) ==
    LET F[i \in 0..Len(tree)] ==
            IF i = 0 THEN <<>>
            ELSE IF tree[i].parent = d THEN Append(F[i - 1], i) ELSE F[i - 1]
    IN  F[Len(tree)]

\* the first entry of directory d called name, 0 when there is none
Find(tree, d, name) ==
    Let({i \in 1..Len(tree) : tree[i].parent = d /\ tree[i].name = name},
        LAMBDA hits : IF hits = {} THEN 0 ELSE SetMin(hits))

\* split('/').filter(|s| !s.is_empty())
RECURSIVE parts_of(_)
parts_of(path) ==
    IF path = <<>> THEN <<>>
    ELSE IF Head(path) = "" THEN parts_of(Tail(path))
         ELSE <<Head(path)>> \o parts_of(Tail(path))

path_is_empty(path) == path = <<"">>

\* Directory::get_mut: res is "some" (id is the entry), "none" or "panic"
RECURSIVE get_mut_walk(_, _, _, _)
get_mut_walk(tree, parts, i, current) ==
    IF i > Len(parts) THEN [res |-> "panic", id |-> 0]
    ELSE Let(Find(tree, current, parts[i]), LAMBDA e :
             IF e = 0 THEN [res |-> "none", id |-> 0]
             ELSE IF i = Len(parts) THEN [res |-> "some", id |-> e]
             ELSE IF tree[e].is_dir
                  THEN get_mut_walk(tree, parts, i + 1, e)
                  ELSE [res |-> "none", id |-> 0])

get_mut(tree, path) ==
    IF path_is_empty(path) THEN [res |-> "panic", id |-> 0]
    ELSE get_mut_walk(tree, parts_of(path), 1, 0)

\* rsplit_once('/'): the text before the last '/' and the text after it
parent_path(path) == IF Len(path) >= 2 THEN Front(path) ELSE <<"">>
get_name(path) == Last(path)

\* Directory::get_parent_directory_mut: res is "ok" (id is the directory,
\* 0 the root), "parent_is_file", "parent_missing" or "panic"
get_parent_directory_mut(tree, path) ==
    Let(parent_path(path), LAMBDA p :
        IF path_is_empty(p) THEN [res |-> "ok", id |-> 0]
        ELSE Let(get_mut(tree, p), LAMBDA g :
                 IF g.res = "panic" THEN [res |-> "panic", id |-> 0]
                 ELSE IF g.res = "none"
                      THEN [res |-> "parent_missing", id |-> 0]
                 ELSE IF tree[g.id].is_dir THEN [res |-> "ok", id |-> g.id]
                 ELSE [res |-> "parent_is_file", id |-> 0]))

\* variant: the entry is pushed whether or not the name is taken
push_entry_over_existing(tree, path, is_dir, inode) ==
    Let(get_parent_directory_mut(tree, path), LAMBDA parent :
        IF parent.res # "ok" THEN [tree |-> tree, res |-> parent.res]
        ELSE [tree |-> Append(tree,
                          IF is_dir THEN DirNode(parent.id, get_name(path))
                          ELSE FileNode(parent.id, get_name(path), inode)),
              res |-> "ok"])

\* Directory::create_file and Directory::mkdir push node under the parent
\* of path unless the name is taken
push_entry(tree, path, is_dir, inode) ==
    Let(get_parent_directory_mut(tree, path), LAMBDA parent :
        IF parent.res # "ok" THEN [tree |-> tree, res |-> parent.res]
        ELSE IF Find(tree, parent.id, get_name(path)) # 0
             THEN [tree |-> tree, res |-> "path_exists"]
        ELSE [tree |-> Append(tree,
                          IF is_dir THEN DirNode(parent.id, get_name(path))
                          ELSE FileNode(parent.id, get_name(path), inode)),
              res |-> "ok"])

Directory_create_file(tree, path, inode) == push_entry(tree, path, FALSE, inode)

Directory_mkdir(tree, path) == push_entry(tree, path, TRUE, 0)

\* Directory::mkdir_p: every missing prefix of the non-empty components,
\* then mkdir of the path as given
RECURSIVE mkdir_p_prefixes(_, _, _)
mkdir_p_prefixes(self, parts, i) ==
    Let(self, LAMBDA tree :
        IF i > Len(parts) - 1 THEN [tree |-> tree, res |-> "ok"]
        ELSE Let(get_mut(tree, SubSeq(parts, 1, i)), LAMBDA g :
                 IF g.res = "panic" THEN [tree |-> tree, res |-> "panic"]
                 ELSE IF g.res = "none"
                      THEN Let(Directory_mkdir(tree, SubSeq(parts, 1, i)),
                               LAMBDA m :
                                 IF m.res # "ok" THEN m
                                 ELSE mkdir_p_prefixes(m.tree, parts, i + 1))
                 ELSE mkdir_p_prefixes(tree, parts, i + 1)))

\* variant: the missing prefixes are not created
Directory_mkdir_p_without_prefixes(tree, path) ==
    Let(parts_of(path), LAMBDA parts :
        IF Len(parts) = 0 THEN [tree |-> tree, res |-> "panic"]
        ELSE Directory_mkdir(tree, path))

Directory_mkdir_p(tree, path) ==
    Let(parts_of(path), LAMBDA parts :
        IF Len(parts) = 0 THEN [tree |-> tree, res |-> "panic"]
        ELSE Let(mkdir_p_prefixes(tree, parts, 1), LAMBDA pre :
                 IF pre.res # "ok" THEN pre
                 ELSE Directory_mkdir(pre.tree, path)))

\* ------------------------------------------------------------ ext4 records

as_mode(ty) ==
    CASE ty = "Null" -> 0
      [] ty = "Fifo" -> 4096
      [] ty = "CharacterDevice" -> 8192
      [] ty = "Directory" -> 16384
      [] ty = "BlockDevice" -> 24576
      [] ty = "RegularFile" -> 32768
      [] ty = "SymbolicLink" -> 40960
      [] ty = "Socket" -> 49152

as_directory_entry_type(ty) ==
    CASE ty = "Null" -> 0
      [] ty = "RegularFile" -> 1
      [] ty = "Directory" -> 2
      [] ty = "CharacterDevice" -> 3
      [] ty = "BlockDevice" -> 4
      [] ty = "Fifo" -> 5
      [] ty = "Socket" -> 6
      [] ty = "SymbolicLink" -> 7

Ext4Inode_default ==
    [i_mode |-> 0, i_links_count |-> 0, i_size |-> 0, i_blocks |-> 0,
     i_flags |-> 0, i_block |-> [kind |-> "zero"], rest |-> [kind |-> "zero"],
     i_generation |-> 0, i_checksum |-> zero_checksum, i_extra_isize |-> 32]

\* (i_mode & 0xf000) | (mode & 0x0fff)
set_mode(inode, mode) ==
    [inode EXCEPT !.i_mode = (@ \div 4096) * 4096 + (mode % 4096)]

\* (i_mode & 0x0fff) | file_type.as_mode()
set_file_type(inode, ty) ==
    [inode EXCEPT !.i_mode = (@ % 4096) + as_mode(ty)]

\* variant: every inode of type Directory or above counts
is_directory_or_above(inode) == inode.i_mode >= as_mode("Directory")

is_directory(inode) == (inode.i_mode \div 4096) * 4096 = as_mode("Directory")

\* Ext4Inode::update_checksum: the field is cleared, the checksum is taken
\* over the inode number, the generation and the inode, and its high half
\* is kept only when the inode is large enough to hold it
Ext4Inode_update_checksum(inode, n) ==
    Let([inode EXCEPT !.i_checksum = zero_checksum], LAMBDA cleared :
        Let(calculate_checksum(<<n, cleared.i_generation, cleared>>),
            LAMBDA checksum :
            [cleared EXCEPT !.i_checksum =
                 IF cleared.i_extra_isize >= 18 THEN checksum
                 ELSE as_u16(checksum)]))

set_links_count(inode, count) == [inode EXCEPT !.i_links_count = count]

\* variant: i_blocks counts blocks of 4096 bytes, not sectors of 512
update_size_in_blocks(inode, size) ==
    [inode EXCEPT !.i_size = size,
                  !.i_blocks = div_ceil(size, BLOCK_SIZE)]

update_size(inode, size) ==
    [inode EXCEPT !.i_size = size,
                  !.i_blocks = div_ceil(size, BLOCK_SIZE) * 8]

\* Ext4Inode::new: an inode whose block area holds an extent tree root
Ext4Inode_new(size, extents, ty) ==
    [update_size(set_file_type(Ext4Inode_default, ty), size)
        EXCEPT !.i_links_count = 1,
               !.i_block = extents,
               !.i_flags = EXT4_EXTENTS_FLAG]

\* the three assertions of Ext4Inode::with_inline_data
with_inline_data_ok(block_len, xattr_len) ==
    /\ block_len <= MAX_INLINE_SIZE_BLOCK
    /\ xattr_len <= MAX_INLINE_SIZE_XATTR
    /\ (block_len < 60 => xattr_len = 0)

\* Ext4Inode::with_inline_data: block_data and xattr_data are given by
\* their lengths and by what they hold
with_inline_data(block_len, block_content, xattr_len, xattr_content, ty) ==
    [set_file_type(Ext4Inode_default, ty)
        EXCEPT !.i_links_count = 1,
               !.i_size = block_len + xattr_len,
               !.i_flags = EXT4_INLINE_DATA_FL,
               !.i_block = [kind |-> "inline", len |-> block_len,
                            content |-> block_content],
               !.rest = [kind |-> "xattr",
                         e_value_offs |-> Ext4ExtAttrEntryData_SIZE + 4,
                         e_value_size |-> xattr_len,
                         content |-> xattr_content]]

\* variant: one leaf covers the whole allocation, whatever its length
extent_leaves_in_one(allocation) ==
    <<[ee_block |-> 0,
       ee_len   |-> allocation.end - allocation.start,
       start    |-> allocation.start]>>

\* the leaves that Ext4InlineExtents::new and
\* Ext4IndirectExtents::create_block lay over an allocation
extent_leaves(allocation) ==
    LET blocks == allocation.end - allocation.start
        extents_needed == div_ceil(blocks, MAX_LEN)
    IN  [i \in 1..extents_needed |->
            [ee_block |-> (i - 1) * MAX_LEN,
             ee_len   |-> IF i = extents_needed
                          THEN blocks - (i - 1) * MAX_LEN
                          ELSE MAX_LEN,
             start    |-> allocation.start + (i - 1) * MAX_LEN]]

Ext4InlineExtents_new(allocation) ==
    [kind |-> "extents",
     header |-> [eh_entries |-> div_ceil(allocation.end - allocation.start,
                                         MAX_LEN),
                 eh_max |-> 4, eh_depth |-> 0],
     extents |-> extent_leaves(allocation)]

\* the assertion of Ext4IndirectExtents::create_block
create_block_ok(allocation) ==
    Ext4ExtentHeader_SIZE
      + div_ceil(allocation.end - allocation.start, MAX_LEN)
          * Ext4ExtentLeafNode_SIZE
      + 4 <= BLOCK_SIZE

Ext4IndirectExtents_create_block(allocation, inode_num) ==
    [header |-> [eh_entries |-> div_ceil(allocation.end - allocation.start,
                                         MAX_LEN),
                 eh_max |-> (BLOCK_SIZE - Ext4ExtentHeader_SIZE - 4)
                                \div Ext4ExtentLeafNode_SIZE,
                 eh_depth |-> 1],
     extents |-> extent_leaves(allocation),
     inode_num |-> inode_num,
     checksum |->
         calculate_checksum(
             <<inode_num, 0,
               [eh_entries |-> div_ceil(allocation.end - allocation.start,
                                        MAX_LEN),
                eh_max |-> (BLOCK_SIZE - Ext4ExtentHeader_SIZE - 4)
                               \div Ext4ExtentLeafNode_SIZE,
                eh_depth |-> 1],
               extent_leaves(allocation)>>)]

Ext4IndirectExtents_new(block) ==
    [kind |-> "index",
     header |-> [eh_entries |-> 1, eh_max |-> 4, eh_depth |-> 1],
     leaf |-> block]

LegacyBlockDescriptor_new(double_indirect) ==
    [kind |-> "legacy", double_indirect |-> double_indirect]

maximum_addressable_size ==
    12 * BLOCK_SIZE + (BLOCK_SIZE \div 8) * BLOCK_SIZE
      + (BLOCK_SIZE \div 8) * (BLOCK_SIZE \div 8) * BLOCK_SIZE

\* Ext4DirEntry::new, for a name of at most 255 bytes
Ext4DirEntry_new(inode, ty, name) ==
    [inode |-> inode,
     rec_len |-> div_ceil(Len(name) + 8, 4) * 4,
     name_len |-> Len(name),
     file_type |-> as_directory_entry_type(ty),
     name |-> name]

\* name.len().try_into().expect(..) of Ext4DirEntry::new
name_len_ok(name) == Len(name) <= 255

entry_is_directory(e) == e.file_type = as_directory_entry_type("Directory")

rec_len_sum(block) ==
    Let(block, LAMBDA es : SumSeq([i \in 1..Len(es) |-> es[i].rec_len]))

\* variant: an entry fits whenever it ends at or before the tail
LinearDirectoryBlock_fits_up_to_tail(block, entry) ==
    rec_len_sum(block) + entry.rec_len + Ext4DirEntryTail_SIZE <= 4096

LinearDirectoryBlock_fits(block, entry) ==
    rec_len_sum(block) + (entry.rec_len + Ext4DirEntryMeta_SIZE)
        + Ext4DirEntryTail_SIZE <= 4096

\* variant: an entry fits whenever it ends at or before the end of the area
InlineLinearDirectoryBlock_fits_whole_area(block, size, entry) ==
    rec_len_sum(block) + entry.rec_len <= size

InlineLinearDirectoryBlock_fits(block, size, entry) ==
    rec_len_sum(block) + (entry.rec_len + Ext4DirEntryMeta_SIZE) <= size

\* the entries as write_buffer / as_bytes lay them out: the rec_len of the
\* last one is stretched to the end of the area of size bytes
stretch_last(block, size) ==
    Let(block, LAMBDA es :
        Front(es)
          \o <<[Last(es) EXCEPT !.rec_len = size - rec_len_sum(Front(es))]>>)

\* variant: the checksum covers the entries as they were added, before the
\* last one is stretched to the tail
LinearDirectoryBlock_update_checksum_as_added(block, inode, inode_generation) ==
    calculate_checksum(<<inode, inode_generation, block>>)

\* LinearDirectoryBlock::update_checksum: over as_bytes()[0..4096 - 12]
LinearDirectoryBlock_update_checksum(block, inode, inode_generation) ==
    calculate_checksum(<<inode, inode_generation,
                         stretch_last(block, 4096 - 12)>>)

LinearDirectoryBlock_write_buffer(block, checksum) ==
    [entries |-> stretch_last(block, 4096 - 12),
     tail |-> [det_rec_len |-> 12, offset |-> 4096 - 12,
               det_checksum |-> checksum]]

InlineLinearDirectoryBlock_as_bytes(block, size) ==
    IF block = <<>>
    THEN <<[Ext4DirEntry_new(0, "Null", "") EXCEPT !.rec_len = size]>>
    ELSE stretch_last(block, size)

\* ------------------------------------------------------- Ext4ImageWriter
\*
\* The operators below take and return the writer as it is during one
\* facade call:
\*   inodes, used_blocks, used_inodes   the fields of Ext4ImageWriter
\*   writer    the device: the log of the writes it accepted
\*   wcount    write_block calls issued during this facade call
\*   fail_at   the write_block call of this facade call at which the device
\*             returns an error (0: the device never fails)
\*   err       "none", "io" (an Err is being propagated by `?`) or "panic"
\*   dir_ino   the inode number each directory of the tree was walked with
\* An operator that returns a value returns [w |-> .., v |-> ..].

alloc_inode(self) ==
    Let(self, LAMBDA w :
        [w |-> [w EXCEPT !.inodes = Append(@, Ext4Inode_default),
                         !.used_inodes = mark_used(@, Len(w.inodes))],
         v |-> Len(w.inodes) + 1])

\* write_blocks: one write_block per started block of data, then the
\* assertion that the allocation was large enough
write_blocks(self, allocation, len, tag, payload) ==
    Let(self, LAMBDA w :
    Let(div_ceil(len, BLOCK_SIZE), LAMBDA m :
        LET fails == w.fail_at > w.wcount /\ w.fail_at <= w.wcount + m
            k == IF fails THEN w.fail_at - w.wcount - 1 ELSE m
        IN  [w EXCEPT
               !.writer = IF k > 0
                          THEN Append(@, [block |-> allocation.start,
                                          n |-> k, tag |-> tag,
                                          payload |-> payload])
                          ELSE @,
               !.wcount = IF fails THEN @ + k + 1 ELSE @ + m,
               !.err = IF fails THEN "io"
                       ELSE IF allocation.end >= allocation.start + m
                            THEN "none" ELSE "panic"]))

\* variant: the data is written at the cursor, which stays where it was
write_blocks_alloc_in_place(self, len, tag, payload) ==
    Let(self, LAMBDA w :
    Let(allocate(w.used_blocks, div_ceil(len, BLOCK_SIZE)), LAMBDA a :
        [w |-> write_blocks(w, a.v, len, tag, payload),
         v |-> a.v]))

write_blocks_alloc(self, len, tag, payload) ==
    Let(self, LAMBDA w :
    Let(allocate(w.used_blocks, div_ceil(len, BLOCK_SIZE)), LAMBDA a :
        [w |-> write_blocks([w EXCEPT !.used_blocks = a.ub],
                            a.v, len, tag, payload),
         v |-> a.v]))

\* variant: the limit of inline extents is exclusive
create_inode_with_extents_exclusive(self, inode_num, size, allocation, ty) ==
    IF allocation.end - allocation.start < MAX_INLINE_BLOCKS
    THEN [w |-> self,
          v |-> Ext4Inode_new(size, Ext4InlineExtents_new(allocation), ty)]
    ELSE IF ~create_block_ok(allocation)
    THEN [w |-> [self EXCEPT !.err = "panic"], v |-> Ext4Inode_default]
    ELSE Let(write_blocks_alloc(self, BLOCK_SIZE, "extent",
                 Ext4IndirectExtents_create_block(allocation, inode_num)),
             LAMBDA ib :
               IF ib.w.err # "none"
               THEN [w |-> ib.w, v |-> Ext4Inode_default]
               ELSE [w |-> ib.w,
                     v |-> [Ext4Inode_new(size,
                                Ext4IndirectExtents_new(ib.v.start), ty)
                              EXCEPT !.i_blocks = @ + 8]])

create_inode_with_extents(self, inode_num, size, allocation, ty) ==
    IF allocation.end - allocation.start <= MAX_INLINE_BLOCKS
    THEN [w |-> self,
          v |-> Ext4Inode_new(size, Ext4InlineExtents_new(allocation), ty)]
    ELSE IF ~create_block_ok(allocation)
    THEN [w |-> [self EXCEPT !.err = "panic"], v |-> Ext4Inode_default]
    ELSE Let(write_blocks_alloc(self, BLOCK_SIZE, "extent",
                 Ext4IndirectExtents_create_block(allocation, inode_num)),
             LAMBDA ib :
               IF ib.w.err # "none"
               THEN [w |-> ib.w, v |-> Ext4Inode_default]
               ELSE [w |-> ib.w,
                     v |-> [Ext4Inode_new(size,
                                Ext4IndirectExtents_new(ib.v.start), ty)
                              EXCEPT !.i_blocks = @ + 8]])

\* variant: only the block area of the inode is used for inline data
create_inode_with_contents_block_area_only(self, inode_num, len, tag, payload, ty) ==
    IF len <= MAX_INLINE_SIZE_BLOCK
    THEN [w |-> self, v |-> with_inline_data(len, payload, 0, payload, ty)]
    ELSE Let(write_blocks_alloc(self, len, tag, payload), LAMBDA a :
             IF a.w.err # "none" THEN [w |-> a.w, v |-> Ext4Inode_default]
             ELSE create_inode_with_extents(a.w, inode_num, len, a.v, ty))

\* create_inode_with_contents: contents are len bytes; payload is what the
\* blocks hold when they are written out
create_inode_with_contents(self, inode_num, len, tag, payload, ty) ==
    IF len <= MAX_INLINE_SIZE
    THEN LET block_len == Min2(MAX_INLINE_SIZE_BLOCK, len)
             xattr_len == IF len > MAX_INLINE_SIZE_BLOCK
                          THEN len - MAX_INLINE_SIZE_BLOCK ELSE 0
         IN  IF with_inline_data_ok(block_len, xattr_len)
             THEN [w |-> self,
                   v |-> with_inline_data(block_len, payload,
                                          xattr_len, payload, ty)]
             ELSE [w |-> [self EXCEPT !.err = "panic"],
                   v |-> Ext4Inode_default]
    ELSE Let(write_blocks_alloc(self, len, tag, payload), LAMBDA a :
             IF a.w.err # "none" THEN [w |-> a.w, v |-> Ext4Inode_default]
             ELSE create_inode_with_extents(a.w, inode_num, len, a.v, ty))

\* the loop of create_directory_inode_inline over entries[2..]: block area
\* first, then xattr area; ok is FALSE when an entry fits neither
RECURSIVE inline_place(_, _, _, _)
inline_place(es, i, block, xattr) ==
    Let(block, LAMBDA block_entries :
    Let(xattr, LAMBDA xattr_entries :
        IF i > Len(es)
        THEN [ok |-> TRUE, block_entries |-> block_entries,
              xattr_entries |-> xattr_entries]
        ELSE IF InlineLinearDirectoryBlock_fits(block_entries,
                    MAX_INLINE_SIZE_BLOCK - 4, es[i])
             THEN inline_place(es, i + 1, Append(block_entries, es[i]),
                               xattr_entries)
        ELSE IF InlineLinearDirectoryBlock_fits(xattr_entries,
                    MAX_INLINE_SIZE_XATTR, es[i])
             THEN inline_place(es, i + 1, block_entries,
                               Append(xattr_entries, es[i]))
        ELSE [ok |-> FALSE, block_entries |-> block_entries,
              xattr_entries |-> xattr_entries]))

\* create_directory_inode_inline: some is FALSE for None
create_directory_inode_inline(es) ==
    Let(inline_place(es, 3, <<>>, <<>>), LAMBDA p :
        IF ~p.ok THEN [some |-> FALSE, v |-> Ext4Inode_default]
        ELSE [some |-> TRUE,
              v |-> with_inline_data(
                      MAX_INLINE_SIZE_BLOCK,
                      [parent_inode |-> es[2].inode,
                       entries |-> InlineLinearDirectoryBlock_as_bytes(
                                       p.block_entries,
                                       MAX_INLINE_SIZE_BLOCK - 4)],
                      MAX_INLINE_SIZE_XATTR,
                      [entries |-> InlineLinearDirectoryBlock_as_bytes(
                                       p.xattr_entries,
                                       MAX_INLINE_SIZE_XATTR)],
                      "Directory")])

\* the loop of create_directory_inode_with_blocks: a new block is started
\* when the entry does not fit the last one
RECURSIVE fill_dir_blocks(_, _, _)
fill_dir_blocks(es, i, blocks) ==
    Let(blocks, LAMBDA dir_blocks :
        IF i > Len(es) THEN dir_blocks
        ELSE IF LinearDirectoryBlock_fits(dir_blocks[Len(dir_blocks)], es[i])
             THEN fill_dir_blocks(es, i + 1,
                      [dir_blocks EXCEPT ![Len(dir_blocks)] = Append(@, es[i])])
             ELSE fill_dir_blocks(es, i + 1, Append(dir_blocks, <<es[i]>>)))

\* the buffers of the directory blocks as they are written out
dir_buffer(dir_blocks, inode_num) ==
    SubSeq([i \in 1..Len(dir_blocks) |->
               LinearDirectoryBlock_write_buffer(dir_blocks[i],
                   LinearDirectoryBlock_update_checksum(dir_blocks[i],
                                                        inode_num, 0))],
           1, Len(dir_blocks))

create_directory_inode_with_blocks(self, inode_num, es) ==
    Let(fill_dir_blocks(es, 1, << <<>> >>), LAMBDA dir_blocks :
        create_inode_with_contents(self, inode_num,
            Len(dir_blocks) * BLOCK_SIZE, "dir",
            [inode_num |-> inode_num, blocks |-> dir_buffer(dir_blocks, inode_num)],
            "Directory"))

\* the number of entries that are directories, '.' and '..' included
subdirectories(es) == Cardinality({i \in 1..Len(es) : entry_is_directory(es[i])})

\* variant: every entry counts, files included
links_count_of_all_entries(es) == 2 + (Len(es) - 2)

links_count_of(es) == 2 + (subdirectories(es) - 2)

\* variant: allow_inline is not looked at
create_directory_inode_inline_whenever_it_fits(self, inode_num, dir_entries, allow_inline) ==
    Let(dir_entries, LAMBDA es :
    Let(create_directory_inode_inline(es), LAMBDA inl :
    Let(IF inl.some
        THEN [w |-> self, v |-> inl.v]
        ELSE create_directory_inode_with_blocks(self, inode_num, es),
        LAMBDA c :
          IF c.w.err # "none" THEN c
          ELSE IF subdirectories(es) > 65535
          THEN [w |-> [c.w EXCEPT !.err = "panic"], v |-> Ext4Inode_default]
          ELSE [w |-> c.w,
                v |-> set_mode(set_links_count(c.v, links_count_of(es)),
                               493)])))

create_directory_inode(self, inode_num, dir_entries, allow_inline) ==
    Let(dir_entries, LAMBDA es :
    Let(create_directory_inode_inline(es), LAMBDA inl :
    Let(IF inl.some /\ allow_inline
        THEN [w |-> self, v |-> inl.v]
        ELSE create_directory_inode_with_blocks(self, inode_num, es),
        LAMBDA c :
          IF c.w.err # "none" THEN c
          ELSE IF subdirectories(es) > 65535
          THEN [w |-> [c.w EXCEPT !.err = "panic"], v |-> Ext4Inode_default]
          ELSE [w |-> c.w,
                v |-> set_mode(set_links_count(c.v, links_count_of(es)),
                               493)])))

\* variant: lost+found is numbered by the allocator like any directory
is_lost_found_nowhere(inode_num, name) == FALSE

\* the inode number a subdirectory called name gets when the directory
\* numbered inode_num is walked
is_lost_found(inode_num, name) == inode_num = 2 /\ name = "lost+found"

\* variant: '.' and '..' carry each other's inode number
base_entries_swapped(inode_num, parent_inode_num) ==
    <<Ext4DirEntry_new(parent_inode_num, "Directory", "."),
      Ext4DirEntry_new(inode_num, "Directory", "..")>>

\* the '.' and '..' entries every directory starts with
base_entries(inode_num, parent_inode_num) ==
    <<Ext4DirEntry_new(inode_num, "Directory", "."),
      Ext4DirEntry_new(parent_inode_num, "Directory", "..")>>

RECURSIVE write_hierarchy_to_inodes(_, _, _, _, _)
RECURSIVE walk_entries(_, _, _, _, _, _)

\* the closure mapped over directory.entries() and collected into a Result:
\* it stops at the first Err
walk_entries(self, tree, kids, i, inode_num, collected) ==
    Let(self, LAMBDA w :
    Let(collected, LAMBDA acc :
        IF i > Len(kids) THEN [w |-> w, v |-> acc]
        ELSE Let(tree[kids[i]], LAMBDA node :
             IF node.is_dir
             THEN Let(IF is_lost_found(inode_num, node.name)
                      THEN [w |-> w, v |-> 11]
                      ELSE alloc_inode(w), LAMBDA a :
                  Let(write_hierarchy_to_inodes(
                          [a.w EXCEPT !.dir_ino = (kids[i] :> a.v) @@ @],
                          tree, kids[i], a.v, inode_num), LAMBDA r :
                      IF r.err # "none" THEN [w |-> r, v |-> acc]
                      ELSE IF ~name_len_ok(node.name)
                      THEN [w |-> [r EXCEPT !.err = "panic"], v |-> acc]
                      ELSE walk_entries(r, tree, kids, i + 1, inode_num,
                               Append(acc, Ext4DirEntry_new(a.v, "Directory",
                                                            node.name)))))
             ELSE IF ~name_len_ok(node.name)
                  THEN [w |-> [w EXCEPT !.err = "panic"], v |-> acc]
                  ELSE walk_entries(w, tree, kids, i + 1, inode_num,
                           Append(acc, Ext4DirEntry_new(node.inode,
                                           "RegularFile", node.name))))))

write_hierarchy_to_inodes(self, tree, directory, inode_num, parent_inode_num) ==
    Let(entries(tree, directory), LAMBDA kids :
    Let(walk_entries(self, tree, kids, 1, inode_num, <<>>), LAMBDA walked :
        IF walked.w.err # "none" THEN walked.w
        ELSE Let(create_directory_inode(walked.w, inode_num,
                     base_entries(inode_num, parent_inode_num) \o walked.v,
                     inode_num # 11), LAMBDA c :
                 IF c.w.err # "none" THEN c.w
                 ELSE [c.w EXCEPT !.inodes[inode_num] = c.v])))

\* max_size.div_ceil(BLOCK_SIZE * BLOCK_SIZE * 8), max_size being in MiB
max_bgdt_table_len(size) ==
    div_ceil(size, (BLOCK_SIZE * BLOCK_SIZE * 8) \div MiB)

bgdt_blocks(size) ==
    div_ceil(max_bgdt_table_len(size) * Ext4BlockGroupDescriptor_SIZE,
             BLOCK_SIZE)

\* variant: no block of the table counts as used by descriptors
used_bgdt_blocks_none(block_groups) == 0

used_bgdt_blocks(block_groups) ==
    div_ceil(block_groups * Ext4BlockGroupDescriptor_SIZE, BLOCK_SIZE)

\* create_resize_inode: the reserved descriptor blocks are marked used and
\* listed in one freshly allocated block
create_resize_inode(self, size, block_groups) ==
    LET used == used_bgdt_blocks(block_groups)
        first == 1 + used
        count == Max2(0, bgdt_blocks(size) + 1 - first)
        indirect_buffer == <<0>> \o [i \in 1..count |-> first + i - 1]
    IN  Let([self EXCEPT !.used_blocks.data = SetBits(@, first, first + count)],
            LAMBDA marked :
        IF 4 * Len(indirect_buffer) > BLOCK_SIZE
        THEN [w |-> [marked EXCEPT !.err = "panic"], v |-> Ext4Inode_default]
        ELSE Let(write_blocks_alloc(marked, 4 * Len(indirect_buffer),
                     "resize", [entries |-> indirect_buffer]), LAMBDA bi :
             IF bi.w.err # "none" THEN [w |-> bi.w, v |-> Ext4Inode_default]
             ELSE IF used > bgdt_blocks(size)
             THEN [w |-> [bi.w EXCEPT !.err = "panic"],
                   v |-> Ext4Inode_default]
             ELSE [w |-> bi.w,
                   v |-> [set_links_count(
                            set_file_type(
                              update_size(
                                [Ext4Inode_default EXCEPT !.i_block =
                                     LegacyBlockDescriptor_new(bi.v.start)],
                                (bgdt_blocks(size) - used + 1) * BLOCK_SIZE),
                              "RegularFile"),
                            1)
                          EXCEPT !.i_size = maximum_addressable_size]]))

\* variant: the indirect block of the resize inode is not counted
size_plan_without_resize_block(next_free, num_inodes) ==
    LET blocks_needed_for_inodes ==
            div_ceil(num_inodes * Ext4Inode_SIZE, BLOCK_SIZE)
        num_blocks_1 == next_free + blocks_needed_for_inodes + 1
        num_block_groups_1 == div_ceil(num_blocks_1, BLOCK_SIZE * 8)
        num_blocks_2 == num_blocks_1 + num_block_groups_1 * 2
        num_block_groups == div_ceil(num_blocks_2, BLOCK_SIZE * 8)
        inodes_per_group ==
            div_ceil(num_inodes \div num_block_groups,
                     BLOCK_SIZE \div Ext4Inode_SIZE)
                * (BLOCK_SIZE \div Ext4Inode_SIZE)
    IN  [num_block_groups |-> num_block_groups,
         inodes_per_group |-> inodes_per_group,
         num_blocks |->
            next_free
              + div_ceil(inodes_per_group * Ext4Inode_SIZE, BLOCK_SIZE)
                  * num_block_groups
              + num_block_groups * 2]

\* the size calculation at the head of finalize
size_plan(next_free, num_inodes) ==
    LET blocks_needed_for_inodes ==
            div_ceil(num_inodes * Ext4Inode_SIZE, BLOCK_SIZE)
        num_blocks_1 == next_free + blocks_needed_for_inodes + 1
        num_block_groups_1 == div_ceil(num_blocks_1, BLOCK_SIZE * 8)
        num_blocks_2 == num_blocks_1 + num_block_groups_1 * 2
        num_block_groups == div_ceil(num_blocks_2, BLOCK_SIZE * 8)
        inodes_per_group ==
            div_ceil(num_inodes \div num_block_groups,
                     BLOCK_SIZE \div Ext4Inode_SIZE)
                * (BLOCK_SIZE \div Ext4Inode_SIZE)
    IN  [num_block_groups |-> num_block_groups,
         inodes_per_group |-> inodes_per_group,
         num_blocks |->
            next_free
              + div_ceil(inodes_per_group * Ext4Inode_SIZE, BLOCK_SIZE)
                  * num_block_groups
              + num_block_groups * 2
              + 1]

\* assert!(num_block_groups >= inodes.len().div_ceil(inodes_per_group)); a
\* zero inodes_per_group is a division by zero
size_plan_ok(plan, num_inodes) ==
    /\ plan.inodes_per_group > 0
    /\ plan.num_block_groups >= div_ceil(num_inodes, plan.inodes_per_group)

\* inodes.resize(new_len, Ext4Inode::default())
resize(inodes, new_len) ==
    IF new_len <= Len(inodes) THEN SubSeq(inodes, 1, new_len)
    ELSE inodes \o [i \in 1..(new_len - Len(inodes)) |-> Ext4Inode_default]

block_bitmap_len(block_group, plan) ==
    IF block_group = plan.num_block_groups - 1
    THEN plan.num_blocks % (BLOCK_SIZE * 8)
    ELSE BLOCK_SIZE * 8

\* Ext4BlockGroupDescriptor::update_checksums: the checksums of the two
\* bitmaps, then the checksum of the descriptor as it is at that moment
update_checksums(descriptor, n, block_bitmap, inode_bitmap) ==
    Let([descriptor EXCEPT
             !.bg_block_bitmap_csum = calculate_checksum(<<block_bitmap.data>>),
             !.bg_inode_bitmap_csum =
                 calculate_checksum(
                     <<Slice(inode_bitmap.data, 0,
                             8 * div_ceil(inode_bitmap.len, 8))>>)],
        LAMBDA d :
        [d EXCEPT !.bg_checksum = as_u16(calculate_checksum(<<n, d>>))])

\* one round of the loop over inodes.chunks_mut(inodes_per_group): the
\* inodes of the chunk get their checksums as they are copied to the
\* buffer of the inode table
emit_group(self, inodes_in, block_group, plan) ==
    LET ipg == plan.inodes_per_group
    IN
    Let(SubSeq([i \in 1..ipg |->
                   Ext4Inode_update_checksum(inodes_in[block_group * ipg + i],
                                             block_group * ipg + i)],
               1, ipg),
        LAMBDA chunk :
    Let(SubSeq(inodes_in, 1, block_group * ipg) \o chunk
          \o SubSeq(inodes_in, (block_group + 1) * ipg + 1, Len(inodes_in)),
        LAMBDA inodes :
    Let(Cardinality({i \in 1..ipg : is_directory(chunk[i])}),
        LAMBDA directories :
    Let(allocate(self.used_blocks, 1), LAMBDA block_bitmap_alloc :
    Let(allocate(block_bitmap_alloc.ub, 1), LAMBDA inode_bitmap_alloc :
    Let(allocate(inode_bitmap_alloc.ub,
                 div_ceil(ipg * Ext4Inode_SIZE, BLOCK_SIZE)),
        LAMBDA inode_table_alloc :
    Let(get_for_block_group(inode_table_alloc.ub, block_group,
                            block_bitmap_len(block_group, plan)),
        LAMBDA block_bitmap :
    Let(write_blocks([self EXCEPT !.used_blocks = inode_table_alloc.ub],
                     block_bitmap_alloc.v, BLOCK_SIZE, "block_bitmap",
                     [block_group |-> block_group, bitmap |-> block_bitmap]),
        LAMBDA w1 :
        IF w1.err # "none" THEN [w |-> w1, ok |-> FALSE, inodes |-> inodes]
        ELSE IF ipg > 4096 * 8
        THEN [w |-> [w1 EXCEPT !.err = "panic"], ok |-> FALSE,
              inodes |-> inodes]
        ELSE
    Let(get_for_block_group(self.used_inodes, block_group, ipg),
        LAMBDA inode_bitmap :
    Let(write_blocks(w1, inode_bitmap_alloc.v, BLOCK_SIZE, "inode_bitmap",
                     [block_group |-> block_group, bitmap |-> inode_bitmap]),
        LAMBDA w2 :
        IF w2.err # "none" THEN [w |-> w2, ok |-> FALSE, inodes |-> inodes]
        ELSE
    Let(write_blocks(w2, inode_table_alloc.v, ipg * Ext4Inode_SIZE,
                     "inode_table",
                     [block_group |-> block_group,
                      first_inode |-> block_group * ipg + 1,
                      count |-> Len(chunk),
                      inodes |-> chunk]),
        LAMBDA w3 :
        IF w3.err # "none" THEN [w |-> w3, ok |-> FALSE, inodes |-> inodes]
        ELSE [w |-> w3, ok |-> TRUE, inodes |-> inodes,
              descriptor |->
                update_checksums(
                    [block_bitmap |-> block_bitmap_alloc.v.start,
                     free_blocks_count |-> free_count(block_bitmap),
                     inode_bitmap |-> inode_bitmap_alloc.v.start,
                     free_inodes_count |-> free_count(inode_bitmap),
                     inode_table |-> inode_table_alloc.v.start,
                     used_dirs_count |-> directories,
                     bg_block_bitmap_csum |-> zero_checksum,
                     bg_inode_bitmap_csum |-> zero_checksum,
                     bg_checksum |-> zero_checksum],
                    block_group, block_bitmap, inode_bitmap)])))))))))))

RECURSIVE emit_groups(_, _, _, _, _, _)
emit_groups(self, inodes, block_group, plan, max_len, bgdt_buf) ==
    IF block_group >= plan.num_block_groups
    THEN [w |-> self, bgdt_buf |-> bgdt_buf, inodes |-> inodes]
    ELSE IF block_group >= max_len
    THEN [w |-> [self EXCEPT !.err = "panic"], bgdt_buf |-> bgdt_buf,
          inodes |-> inodes]
    ELSE Let(self, LAMBDA w :
         Let(bgdt_buf, LAMBDA buf :
         Let(emit_group(w, inodes, block_group, plan), LAMBDA e :
             IF ~e.ok THEN [w |-> e.w, bgdt_buf |-> buf, inodes |-> e.inodes]
             ELSE emit_groups(e.w, e.inodes, block_group + 1, plan, max_len,
                              Append(buf, e.descriptor)))))

\* Ext4SuperBlock::block_groups_count
block_groups_count(blocks_count) == div_ceil(blocks_count, s_blocks_per_group)

\* the fields of the superblock that lie in as_bytes()[0..1020]: all but
\* s_checksum, its last four bytes
covered_by_s_checksum(superblock) ==
    [f \in DOMAIN superblock \ {"s_checksum"} |-> superblock[f]]

\* Ext4SuperBlock::update_checksum
Ext4SuperBlock_update_checksum(superblock) ==
    [superblock EXCEPT !.s_checksum =
         calculate_checksum(<<covered_by_s_checksum(superblock)>>)]

\* the superblock as finalize fills it: new, set_reserved_gdt_blocks,
\* set_free_inodes_count, set_free_blocks_count, update_blocks_count
superblock_of(plan, size, bgdt_buf) ==
  Ext4SuperBlock_update_checksum(
    [s_checksum |-> zero_checksum,
     s_inodes_per_group |-> plan.inodes_per_group,
     s_blocks_per_group |-> s_blocks_per_group,
     s_reserved_gdt_blocks |->
         bgdt_blocks(size) - used_bgdt_blocks(plan.num_block_groups),
     s_free_inodes_count |->
         SumSeq([i \in 1..Len(bgdt_buf) |-> bgdt_buf[i].free_inodes_count]),
     free_blocks_count |->
         SumSeq([i \in 1..Len(bgdt_buf) |-> bgdt_buf[i].free_blocks_count]),
     blocks_count |-> plan.num_blocks,
     s_inodes_count |->
         block_groups_count(plan.num_blocks) * plan.inodes_per_group])

\* what finalize leaves when it stops: the writer, the inode vector, and
\* how far the size calculation and the emission got
FinalizeResult(w, inodes, plan, bgdt_buf, closed) ==
    [w |-> w, inodes |-> inodes, plan |-> plan, bgdt_buf |-> bgdt_buf,
     next_free_at_assert |-> closed]

NoPlan == [num_block_groups |-> 0, inodes_per_group |-> 0, num_blocks |-> 0]

finalize_body(self, tree, size) ==
    Let(write_hierarchy_to_inodes([self EXCEPT !.dir_ino = (0 :> 2)],
                                  tree, 0, 2, 2), LAMBDA h :
    IF h.err # "none" THEN FinalizeResult(h, h.inodes, NoPlan, <<>>, -1)
    ELSE
    Let(size_plan(h.used_blocks.next_free, Len(h.inodes)), LAMBDA plan :
    IF ~size_plan_ok(plan, Len(h.inodes))
    THEN FinalizeResult([h EXCEPT !.err = "panic"], h.inodes, NoPlan, <<>>, -1)
    ELSE
    Let(create_resize_inode(h, size, plan.num_block_groups), LAMBDA r :
    IF r.w.err # "none" THEN FinalizeResult(r.w, r.w.inodes, plan, <<>>, -1)
    ELSE
    Let(resize([r.w.inodes EXCEPT ![7] = r.v],
               plan.num_block_groups * plan.inodes_per_group), LAMBDA inodes :
    Let(emit_groups(r.w, inodes, 0, plan, max_bgdt_table_len(size), <<>>),
        LAMBDA g :
    IF g.w.err # "none" THEN FinalizeResult(g.w, g.inodes, plan, g.bgdt_buf, -1)
    ELSE
    Let(write_blocks(g.w, Allocation_from_start_len(1, bgdt_blocks(size)),
                     Len(g.bgdt_buf) * Ext4BlockGroupDescriptor_SIZE,
                     "gdt", g.bgdt_buf), LAMBDA t :
    IF t.err # "none" THEN FinalizeResult(t, g.inodes, plan, g.bgdt_buf, -1)
    ELSE IF t.used_blocks.next_free # plan.num_blocks
    THEN FinalizeResult([t EXCEPT !.err = "panic"], g.inodes, plan,
                        g.bgdt_buf, t.used_blocks.next_free)
    ELSE IF used_bgdt_blocks(plan.num_block_groups) > bgdt_blocks(size)
    THEN FinalizeResult([t EXCEPT !.err = "panic"], g.inodes, plan,
                        g.bgdt_buf, t.used_blocks.next_free)
    ELSE FinalizeResult(
             write_blocks(t, Allocation_from_start_len(0, 1), BLOCK_SIZE,
                          "superblock", superblock_of(plan, size, g.bgdt_buf)),
             g.inodes, plan, g.bgdt_buf, t.used_blocks.next_free)))))))

\* ------------------------------------------------------------------ state

VARIABLES
    pc,            \* "staging", "done" (finalize returned Ok), "failed"
                   \* (finalize returned Err) or "panicked"
    max_size,      \* Ext4ImageWriter.max_size, in MiB
    directories,   \* Ext4ImageWriter.directories
    inodes,        \* Ext4ImageWriter.inodes
    used_blocks,   \* Ext4ImageWriter.used_blocks
    used_inodes,   \* Ext4ImageWriter.used_inodes
    writer,        \* Ext4ImageWriter.writer: the writes the device accepted
    calls,         \* number of facade calls made so far
    call,          \* the last facade call: its arguments and its result
    fin,           \* the locals of finalize when it stopped
    dir_ino        \* the inode number each directory was walked with

vars == <<pc, max_size, directories, inodes, used_blocks, used_inodes,
          writer, calls, call, fin, dir_ino>>

\* -------------------------------------------------------------- inputs

\* max_size of the repository's tests, in MiB: 1 GiB and 128 GiB
MaxSizes == {1024, 128 * 1024}

LongName == "a_name_that_is_long_enough_not_to_fit_an_inline_directory"

\* a name of 24 bytes: after lost+found it does not fit the block area of
\* an inline directory, but it fits the xattr area
MediumName == "a_name_of_24_bytes_here_"

\* the text s repeated n times
RECURSIVE Repeated(_, _)
Repeated(s, n) == IF n = 0 THEN "" ELSE s \o Repeated(s, n - 1)

\* a name one byte longer than the 255 bytes a directory entry can hold
TooLongName == Repeated("0123456789abcdef", 16)

DeepPath == [i \in 1..DeepLen |-> "n"]

\* the content length that ends the data of a lone file six blocks short
\* of the end of the second block group
NearGroupEnd == (2 * s_blocks_per_group - 9) * BLOCK_SIZE

\* the content length of a lone file that makes the image one block group
\* larger than the eight groups a max_size of 1 GiB has descriptors for
NinthGroup == (8 * s_blocks_per_group + 16) * BLOCK_SIZE

\* the content length of a lone file that makes the image of a writer with
\* max_size 1 GiB exactly one block group long: 2 reserved blocks, the
\* data, the block of lost+found and 4 blocks of metadata
FullGroup == (s_blocks_per_group - 7) * BLOCK_SIZE

\* write_file inputs <<contents_len, path>>: lengths around the two inline
\* limits and around the inline-extent limit, in the root and in a
\* directory
FileInputs ==
    ({MAX_INLINE_SIZE_BLOCK, MAX_INLINE_SIZE_BLOCK + 1,
      MAX_INLINE_SIZE, MAX_INLINE_SIZE + 1,
      MAX_INLINE_BLOCKS * BLOCK_SIZE,
      MAX_INLINE_BLOCKS * BLOCK_SIZE + 1,
      NearGroupEnd, NinthGroup, FullGroup} \X {<<"a">>})
    \cup ({0, MAX_INLINE_SIZE + 1} \X {<<"d", "a">>})
MkdirPaths == {<<"d">>, <<MediumName>>, <<LongName>>, <<TooLongName>>}
MkdirPPaths == {<<"d", "e">>, DeepPath}

\* the write_block calls at which the device may fail, out of total
fail_points(total) ==
    {0} \cup (1..Min2(total, MaxFailAt)) \cup (IF total > 0 THEN {total} ELSE {})

\* ------------------------------------------------------------- actions

This(fail_at) ==
    [inodes |-> inodes, used_blocks |-> used_blocks,
     used_inodes |-> used_inodes, writer |-> writer,
     wcount |-> 0, fail_at |-> fail_at, err |-> "none", dir_ino |-> <<>>]

RECURSIVE alloc_inodes(_, _)
alloc_inodes(self, n) ==
    IF n = 0 THEN self ELSE alloc_inodes(alloc_inode(self).w, n - 1)

\* variant: the superblock and the descriptor table are not reserved
new_without_reservation(size) ==
    Let(alloc_inodes([inodes |-> <<>>, used_blocks |-> UsageBitmap_default,
                      used_inodes |-> UsageBitmap_default], 11), LAMBDA w :
        [inodes |-> w.inodes, used_blocks |-> w.used_blocks,
         used_inodes |-> w.used_inodes,
         directories |-> Directory_mkdir(Directory_default,
                                         <<"lost+found">>).tree])

\* Ext4ImageWriter::new
new(size) ==
    Let(allocate(UsageBitmap_default, 1), LAMBDA sb :
    Let(allocate(sb.ub, bgdt_blocks(size)), LAMBDA gdt :
    Let(alloc_inodes([inodes |-> <<>>, used_blocks |-> gdt.ub,
                      used_inodes |-> UsageBitmap_default], 11), LAMBDA w :
        [inodes |-> w.inodes, used_blocks |-> w.used_blocks,
         used_inodes |-> w.used_inodes,
         directories |-> Directory_mkdir(Directory_default,
                                         <<"lost+found">>).tree])))

NoFin == [plan |-> NoPlan, bgdt_buf |-> <<>>, next_free_at_assert |-> -1]

CallRecord(op, path, len, inode_num, before, result) ==
    [op |-> op, path |-> path, len |-> len, inode_num |-> inode_num,
     next_free_before |-> before, result |-> result]

Init ==
    /\ max_size \in MaxSizes
    /\ pc = "staging"
    /\ \E this \in {new(max_size)} :
          /\ inodes = this.inodes
          /\ used_blocks = this.used_blocks
          /\ used_inodes = this.used_inodes
          /\ directories = this.directories
    /\ writer = <<>>
    /\ calls = 0
    /\ call = CallRecord("new", <<>>, 0, 0, 0, "ok")
    /\ fin = NoFin
    /\ dir_ino = <<>>

\* the writer state a write_file call leaves when create_inode_with_contents
\* has returned: inode_num is allocated and the contents are encoded
write_file_encode(contents_len, fail_at) ==
    Let(alloc_inode(This(fail_at)), LAMBDA a :
        [inode_num |-> a.v,
         c |-> create_inode_with_contents(a.w, a.v, contents_len, "data",
                   [len |-> contents_len], "RegularFile")])

\* Ext4ImageWriter::write_file
write_file(contents_len, path, mode, fail_at) ==
    /\ pc = "staging"
    /\ calls < MaxCalls
    /\ \E e \in {write_file_encode(contents_len, fail_at)} :
       \E t \in {Directory_create_file(directories, path, e.inode_num)} :
          /\ calls' = calls + 1
          /\ used_blocks' = e.c.w.used_blocks
          /\ used_inodes' = e.c.w.used_inodes
          /\ writer' = e.c.w.writer
          /\ IF e.c.w.err # "none"
             THEN /\ inodes' = e.c.w.inodes
                  /\ directories' = directories
                  /\ pc' = IF e.c.w.err = "panic" THEN "panicked" ELSE pc
                  /\ call' = CallRecord("write_file", path, contents_len,
                                 e.inode_num, used_blocks.next_free,
                                 e.c.w.err)
             ELSE /\ inodes' = [e.c.w.inodes EXCEPT
                                   ![e.inode_num] = set_mode(e.c.v, mode)]
                  /\ directories' = t.tree
                  /\ pc' = IF t.res = "panic" THEN "panicked" ELSE pc
                  /\ call' = CallRecord("write_file", path, contents_len,
                                 e.inode_num, used_blocks.next_free, t.res)
    /\ UNCHANGED <<max_size, fin, dir_ino>>

\* Ext4ImageWriter::mkdir
mkdir(path) ==
    /\ pc = "staging"
    /\ calls < MaxCalls
    /\ \E t \in {Directory_mkdir(directories, path)} :
          /\ calls' = calls + 1
          /\ directories' = t.tree
          /\ pc' = IF t.res = "panic" THEN "panicked" ELSE pc
          /\ call' = CallRecord("mkdir", path, 0, 0, used_blocks.next_free,
                                t.res)
    /\ UNCHANGED <<max_size, inodes, used_blocks, used_inodes, writer,
                   fin, dir_ino>>

\* Ext4ImageWriter::mkdir_p
mkdir_p(path) ==
    /\ pc = "staging"
    /\ calls < MaxCalls
    /\ \E t \in {Directory_mkdir_p(directories, path)} :
          /\ calls' = calls + 1
          /\ directories' = t.tree
          /\ pc' = IF t.res = "panic" THEN "panicked" ELSE pc
          /\ call' = CallRecord("mkdir_p", path, 0, 0, used_blocks.next_free,
                                t.res)
    /\ UNCHANGED <<max_size, inodes, used_blocks, used_inodes, writer,
                   fin, dir_ino>>

\* Ext4ImageWriter::finalize
finalize(fail_at) ==
    /\ pc = "staging"
    /\ \E f \in {finalize_body(This(fail_at), directories, max_size)} :
          /\ pc' = CASE f.w.err = "none" -> "done"
                     [] f.w.err = "io" -> "failed"
                     [] f.w.err = "panic" -> "panicked"
          /\ inodes' = f.inodes
          /\ used_blocks' = f.w.used_blocks
          /\ used_inodes' = f.w.used_inodes
          /\ writer' = f.w.writer
          /\ dir_ino' = f.w.dir_ino
          /\ fin' = [plan |-> f.plan, bgdt_buf |-> f.bgdt_buf,
                     next_free_at_assert |-> f.next_free_at_assert]
          /\ call' = CallRecord("finalize", <<>>, 0, 0, used_blocks.next_free,
                                f.w.err)
    /\ UNCHANGED <<max_size, directories, calls>>

\* the number of write_block calls the facade call makes on a device that
\* never fails
write_file_writes(contents_len) == write_file_encode(contents_len, 0).c.w.wcount
finalize_writes == finalize_body(This(0), directories, max_size).w.wcount

WriteFile ==
    /\ pc = "staging"
    /\ calls < MaxCalls
    /\ \E input \in FileInputs :
          \E fail_at \in fail_points(write_file_writes(input[1])) :
              write_file(input[1], input[2], 420, fail_at)

Mkdir == \E path \in MkdirPaths : mkdir(path)

MkdirP == \E path \in MkdirPPaths : mkdir_p(path)

Finalize ==
    /\ pc = "staging"
    /\ \E fail_at \in fail_points(finalize_writes) : finalize(fail_at)

Next == WriteFile \/ Mkdir \/ MkdirP \/ Finalize

Spec == Init /\ [][Next]_vars

\* ------------------------------------------------ the staging tree alone
\*
\* The methods of Directory (file_tree.rs) applied to the tree of a fresh
\* writer, without the writer around them.

\* number of Directory method calls
MaxTreeCalls == 3

\* paths handed to the Directory methods: plain ones, one below a file,
\* and spellings with a trailing, a leading and a doubled '/' ("a/", "/a",
\* "a//b", "a/b/", "//a")
TreePaths ==
    {<<"a">>, <<"a", "b">>, <<"a", "b", "c">>, <<"f">>, <<"f", "x">>,
     <<"a", "">>, <<"", "a">>, <<"a", "", "b">>, <<"a", "b", "">>,
     <<"", "", "a">>}

\* inode numbers handed to create_file
TreeInodes == {12, 13}

\* the tree and the result a Directory method returned are taken over
TreeCall(op, path, inode, returned) ==
    /\ pc = "staging"
    /\ calls < MaxTreeCalls
    /\ \E t \in {returned} :
          /\ calls' = calls + 1
          /\ directories' = t.tree
          /\ pc' = IF t.res = "panic" THEN "panicked" ELSE pc
          /\ call' = CallRecord(op, path, 0, inode, 0, t.res)
    /\ UNCHANGED <<max_size, inodes, used_blocks, used_inodes, writer,
                   fin, dir_ino>>

TreeCreateFile ==
    \E path \in TreePaths : \E inode \in TreeInodes :
        TreeCall("create_file", path, inode,
                 Directory_create_file(directories, path, inode))

TreeMkdir ==
    \E path \in TreePaths :
        TreeCall("mkdir", path, 0, Directory_mkdir(directories, path))

TreeMkdirP ==
    \E path \in TreePaths :
        TreeCall("mkdir_p", path, 0, Directory_mkdir_p(directories, path))

TreeNext == TreeCreateFile \/ TreeMkdir \/ TreeMkdirP

TreeSpec == Init /\ [][TreeNext]_vars

\* --------------------------------------------- the size calculation alone
\*
\* The head of finalize applied to the two values it reads: the allocator's
\* cursor and the length of the inode vector.

\* the largest inode vector drawn
MaxInodes == 50

\* cursors drawn: a small image and images whose data ends shortly before
\* and after the end of the first and of the second block group
NextFreeInputs ==
    {3, s_blocks_per_group - 8, s_blocks_per_group + 3,
     2 * s_blocks_per_group - 8, 2 * s_blocks_per_group + 3}

\* new() leaves 11 inodes
InodeCountInputs == 11..MaxInodes

SizePlan ==
    /\ pc = "staging"
    /\ calls = 0
    /\ \E next_free \in NextFreeInputs : \E num_inodes \in InodeCountInputs :
          \E plan \in {size_plan(next_free, num_inodes)} :
              /\ fin' = [NoFin EXCEPT !.plan = plan]
              /\ call' = CallRecord("size_plan", <<>>, 0, num_inodes, next_free,
                                    IF size_plan_ok(plan, num_inodes)
                                    THEN "ok" ELSE "panic")
              /\ pc' = IF size_plan_ok(plan, num_inodes)
                       THEN "planned" ELSE "panicked"
    /\ calls' = 1
    /\ UNCHANGED <<max_size, directories, inodes, used_blocks, used_inodes,
                   writer, dir_ino>>

SizeNext == SizePlan

SizeSpec == Init /\ [][SizeNext]_vars

\* ------------------------------------------- the directory encoder alone
\*
\* create_directory_inode applied to the entries of one directory, inode 12
\* under the root, whose children are files; call.path holds the names of
\* the children in insertion order, inodes[12] the inode returned and
\* writer the blocks written for it.

\* the number of children added one at a time
MaxDirPushes == 4

\* children the directory starts with: none, or as many names of 255
\* bytes as nearly fill one block
DirPrefixes == {0, 15}

\* lengths of the names added: entries of 12, 32, 48, 96 and 264 bytes
DirNameLens == {1, 24, 40, 88, 255}

Letter == <<"a", "b", "c", "d", "e", "f", "g", "h", "i", "j", "k", "l", "m",
            "n", "o", "p", "q", "r", "s", "t", "u", "v", "w", "x", "y", "z">>

\* n bytes of padding, for n below 256
Pad(n) ==
    LET p1 == "_"
        p2 == p1 \o p1
        p4 == p2 \o p2
        p8 == p4 \o p4
        p16 == p8 \o p8
        p32 == p16 \o p16
        p64 == p32 \o p32
        p128 == p64 \o p64
        bit(i, p) == IF (n \div i) % 2 = 1 THEN p ELSE ""
    IN  bit(1, p1) \o bit(2, p2) \o bit(4, p4) \o bit(8, p8)
          \o bit(16, p16) \o bit(32, p32) \o bit(64, p64) \o bit(128, p128)

\* the k-th child's name, of the given length
ChildName(k, len) == Letter[k] \o Pad(len - 1)

\* the entries write_hierarchy_to_inodes collects for the directory
DirEntriesOf(names) ==
    base_entries(12, 2)
      \o [k \in 1..Len(names) |->
             Ext4DirEntry_new(12 + k, "RegularFile", names[k])]

DirEncode(names) ==
    /\ pc = "staging"
    /\ \E r \in {create_directory_inode(
                     [This(0) EXCEPT !.writer = <<>>,
                                     !.inodes = SubSeq(inodes, 1, 11)],
                     12, DirEntriesOf(names), TRUE)} :
          /\ inodes' = SubSeq(inodes, 1, 11) \o <<r.v>>
          /\ writer' = r.w.writer
          /\ call' = CallRecord("create_directory_inode", names, 0, 12,
                                used_blocks.next_free, r.w.err)
    /\ UNCHANGED <<pc, max_size, directories, used_blocks, used_inodes,
                   fin, dir_ino>>

DirStart ==
    /\ call.op = "new"
    /\ calls' = calls
    /\ \E n \in DirPrefixes :
          DirEncode(SubSeq([k \in 1..n |-> ChildName(k, 255)], 1, n))

DirPush ==
    /\ call.op = "create_directory_inode"
    /\ calls < MaxDirPushes
    /\ calls' = calls + 1
    /\ \E len \in DirNameLens :
          DirEncode(Append(call.path, ChildName(Len(call.path) + 1, len)))

DirNext == DirStart \/ DirPush

DirSpec == Init /\ [][DirNext]_vars

\* ------------------------------------------------- the image on the device

\* the positions of the log at which a write of the given kind was accepted
WritesTagged(tag) == {i \in 1..Len(writer) : writer[i].tag = tag}

\* the positions of the log whose write covers block 0
WritesOfBlockZero ==
    {i \in 1..Len(writer) :
        writer[i].block <= 0 /\ 0 < writer[i].block + writer[i].n}

\* the superblock and the descriptor table as finalize wrote them
WrittenSuperblock ==
    writer[CHOOSE i \in WritesTagged("superblock") : TRUE].payload
WrittenDescriptors ==
    writer[CHOOSE i \in WritesTagged("gdt") : TRUE].payload

\* block groups that had a block bitmap written
EmittedGroups ==
    {writer[i].payload.block_group : i \in WritesTagged("block_bitmap")}

\* the block bitmap written for block_group
WrittenBlockBitmap(block_group) ==
    writer[CHOOSE i \in WritesTagged("block_bitmap") :
               writer[i].payload.block_group = block_group].payload.bitmap

\* the blocks the descriptor of block_group (counted from 0) records: block
\* bitmap, inode bitmap and every block of the inode table
MetadataBlocks(block_group) ==
    LET d == WrittenDescriptors[block_group + 1]
        table_blocks == div_ceil(WrittenSuperblock.s_inodes_per_group
                                     * Ext4Inode_SIZE, BLOCK_SIZE)
    IN  {d.block_bitmap, d.inode_bitmap}
            \cup (d.inode_table .. (d.inode_table + table_blocks - 1))

GroupOfBlock(b) == b \div s_blocks_per_group

\* block b has its bit set in the block bitmap written for the group whose
\* range contains it
SetInWrittenBitmap(b) ==
    /\ GroupOfBlock(b) \in EmittedGroups
    /\ BitIsSet(WrittenBlockBitmap(GroupOfBlock(b)).data,
                b % s_blocks_per_group)

\* directories of the staging tree, the root (0) included
TreeDirectories ==
    {0} \cup {d \in 1..Len(directories) : directories[d].is_dir}

ChildDirectories(d) ==
    {k \in 1..Len(directories) :
        directories[k].parent = d /\ directories[k].is_dir}
ChildFiles(d) ==
    {k \in 1..Len(directories) :
        directories[k].parent = d /\ ~directories[k].is_dir}

\* the <<name, inode>> pairs of the entries emitted for the directory whose
\* inode number is n: from the inode itself when it is inline, from the
\* directory blocks written for it otherwise
EmittedEntries(n) ==
    IF inodes[n].i_block.kind = "inline"
    THEN LET b == inodes[n].i_block.content.entries
             x == inodes[n].rest.content.entries
         IN  {<<b[i].name, b[i].inode>> : i \in 1..Len(b)}
               \cup {<<x[i].name, x[i].inode>> : i \in 1..Len(x)}
    ELSE UNION {
           UNION {
             {<<writer[i].payload.blocks[j].entries[k].name,
                writer[i].payload.blocks[j].entries[k].inode>> :
                  k \in 1..Len(writer[i].payload.blocks[j].entries)} :
             j \in 1..Len(writer[i].payload.blocks)} :
           i \in {i \in WritesTagged("dir") : writer[i].payload.inode_num = n}}

\* the last facade call was a write_file that stored its inode
WriteFileStored ==
    call.op = "write_file" /\ call.result \notin {"io", "panic"}

\* ----------------------------------------------------------------- claims

\* C1 -- size closure: whenever finalize reaches its assertion, the block
\* allocator's cursor equals the num_blocks computed at its head, and after
\* a finalize that completes the cursor equals the blocks_count recorded in
\* the written superblock.
C1_SizeClosure ==
    /\ fin.next_free_at_assert # -1
          => fin.next_free_at_assert = fin.plan.num_blocks
    /\ pc = "done"
          => /\ used_blocks.next_free = fin.plan.num_blocks
             /\ WrittenSuperblock.blocks_count = used_blocks.next_free

\* a finalize completed on an image of at least two block groups holding
\* something besides lost+found
C1_Witness ==
    /\ pc = "done"
    /\ fin.plan.num_block_groups >= 2
    /\ Len(directories) >= 2
    /\ fin.next_free_at_assert = fin.plan.num_blocks

\* C2 -- block 0 is written at most once; the write that covers it is the
\* superblock write, it is the last write in the log and it is there exactly
\* when finalize completed; after a finalize that stopped early, and during
\* staging, no write covers block 0.
C2_BlockZeroWrittenLast ==
    /\ Cardinality(WritesOfBlockZero) <= 1
    /\ \A i \in WritesOfBlockZero :
          /\ i = Len(writer)
          /\ writer[i].tag = "superblock"
          /\ writer[i].block = 0 /\ writer[i].n = 1
          /\ pc = "done"
    /\ pc = "done" => WritesOfBlockZero # {}
    /\ pc \in {"staging", "failed", "panicked"} => WritesOfBlockZero = {}

\* finalize stopped at its very last write: the descriptor table is on the
\* device, block 0 is not
C2_Witness ==
    /\ pc = "failed"
    /\ call.op = "finalize"
    /\ WritesTagged("gdt") # {}
    /\ WritesOfBlockZero = {}

\* C3 -- after a finalize that completes, the superblock's inodes_count is
\* the number of emitted groups times inodes_per_group, and the group count
\* derived from blocks_count, ceil(blocks_count / 32768), is the number of
\* emitted groups.
C3_InodesCountMatchesGroups ==
    pc = "done" =>
        LET G == Cardinality(EmittedGroups)
        IN  /\ Len(WrittenDescriptors) = G
            /\ WrittenSuperblock.s_inodes_count
                   = G * WrittenSuperblock.s_inodes_per_group
            /\ block_groups_count(WrittenSuperblock.blocks_count) = G

\* C4 -- self-describing bitmap: after a finalize that completes, every
\* block recorded in a group's descriptor (block bitmap, inode bitmap, inode
\* table) has its bit set in the block bitmap written for the group whose
\* range contains it, and no later group's metadata is allocated inside the
\* range of a group whose bitmap was already written.
C4_SelfDescribingBitmap ==
    pc = "done" =>
        /\ \A g \in 0..(Len(WrittenDescriptors) - 1) :
              \A b \in MetadataBlocks(g) : SetInWrittenBitmap(b)
        /\ \A g \in 0..(Len(WrittenDescriptors) - 1) :
              \A h \in (g + 1)..(Len(WrittenDescriptors) - 1) :
                  \A b \in MetadataBlocks(h) : GroupOfBlock(b) # g

StoredInline(block_len, xattr_len) ==
    LET inode == inodes[call.inode_num]
    IN  /\ used_blocks.next_free = call.next_free_before
        /\ inode.i_flags = EXT4_INLINE_DATA_FL
        /\ inode.i_blocks = 0
        /\ inode.i_size = call.len
        /\ inode.i_block.kind = "inline"
        /\ inode.i_block.len = block_len
        /\ inode.rest.e_value_size = xattr_len

C8_DirectoryLinksCount ==
    pc = "done" =>
        \A d \in TreeDirectories :
            /\ d \in DOMAIN dir_ino
            /\ is_directory(inodes[dir_ino[d]])
            /\ inodes[dir_ino[d]].i_links_count
                   = 2 + Cardinality(ChildDirectories(d))

\* a completed image with a directory, not the root, that holds both a
\* subdirectory and a file
C8_Witness ==
    /\ pc = "done"
    /\ \E d \in TreeDirectories \ {0} :
          ChildDirectories(d) # {} /\ ChildFiles(d) # {}

\* C9 -- after a finalize that completes, used_dirs_count of every written
\* descriptor is the number of directories whose inode number lies in the
\* group's inode range, and the counts add up to the number of directories
\* of the staging tree plus the root.
C9_UsedDirsAccounting ==
    pc = "done" =>
        LET ipg == WrittenSuperblock.s_inodes_per_group
            gdt == WrittenDescriptors
            dir_inodes == {dir_ino[d] : d \in TreeDirectories}
        IN  /\ \A g \in 1..Len(gdt) :
                  gdt[g].used_dirs_count
                      = Cardinality({n \in dir_inodes :
                                        (g - 1) * ipg < n /\ n <= g * ipg})
            /\ SumSeq([g \in 1..Len(gdt) |-> gdt[g].used_dirs_count])
                   = Cardinality(TreeDirectories)

\* a completed image whose second group holds a directory inode
C9_Witness ==
    /\ pc = "done"
    /\ Len(WrittenDescriptors) >= 2
    /\ WrittenDescriptors[2].used_dirs_count > 0
    /\ WrittenDescriptors[1].used_dirs_count > 0

\* C10 -- for every directory emitted by a finalize that completes: the
\* entry its parent emits for it carries its inode number; a block-encoded
\* directory starts with '.' carrying its own inode number and '..' carrying
\* the inode number of the containing directory; an inline directory's
\* parent field is the inode number of the containing directory; for the
\* root both numbers are 2.
C10_SelfAndParentReferences ==
    pc = "done" =>
        /\ dir_ino[0] = 2
        /\ \A d \in TreeDirectories :
              LET n == dir_ino[d]
                  p == IF d = 0 THEN 2 ELSE dir_ino[directories[d].parent]
              IN  /\ d # 0 => <<directories[d].name, n>> \in EmittedEntries(p)
                  /\ IF inodes[n].i_block.kind = "inline"
                     THEN inodes[n].i_block.content.parent_inode = p
                     ELSE \E i \in WritesTagged("dir") :
                            /\ writer[i].payload.inode_num = n
                            /\ LET es == writer[i].payload.blocks[1].entries
                               IN  /\ es[1].name = "." /\ es[1].inode = n
                                   /\ es[2].name = ".." /\ es[2].inode = p

\* a completed image with an inline directory two levels below the root and
\* a block-encoded root
C10_Witness ==
    /\ pc = "done"
    /\ inodes[2].i_block.kind = "extents"
    /\ \E d \in TreeDirectories \ {0} :
          /\ directories[d].parent # 0
          /\ inodes[dir_ino[d]].i_block.kind = "inline"
          /\ dir_ino[directories[d].parent] # 2

\* the entry the names lead to from directory d (0 is the root): -1 when a
\* name is missing or the walk would pass through a file
RECURSIVE Resolve(_, _, _)
Resolve(tree, names, d) ==
    IF names = <<>> THEN d
    ELSE IF d > 0 /\ ~tree[d].is_dir THEN -1
    ELSE LET hits == {k \in 1..Len(tree) :
                         tree[k].parent = d /\ tree[k].name = Head(names)}
         IN  IF hits = {} THEN -1
             ELSE Resolve(tree, Tail(names), SetMin(hits))

\* the entries of the tree that lie in directory d
ChildrenIn(tree, d) == {k \in 1..Len(tree) : tree[k].parent = d}

\* a Directory method call returned an error
ReturnedError(c) ==
    c.result \in {"path_exists", "parent_missing", "parent_is_file"}

\* the path has no empty component: no leading, doubled or trailing '/'
PlainPath(path) == path # <<>> /\ \A i \in 1..Len(path) : path[i] # ""

\* C11 -- a create_file or mkdir on the staging tree, given a path without
\* empty components, returns an error and leaves the tree as it was when
\* the path already leads to a file or a directory, when a parent component
\* is missing, or when a parent component is a file; otherwise it returns
\* Ok, the tree gains exactly one entry, and a lookup of the path returns
\* that entry: the file with the registered inode number, or a directory
\* without entries.
C11_CreateRefusedOrRegistered ==
    [][(call'.op \in {"create_file", "mkdir"} /\ calls' = calls + 1
            /\ PlainPath(call'.path)) =>
        LET names == call'.path
            parent == Resolve(directories, Front(names), 0)
            refused == \/ Resolve(directories, names, 0) # -1
                       \/ parent = -1
                       \/ parent > 0 /\ ~directories[parent].is_dir
            found == get_mut(directories', call'.path)
        IN  IF refused
            THEN ReturnedError(call') /\ directories' = directories
            ELSE /\ call'.result = "ok"
                 /\ Front(directories') = directories
                 /\ found.res = "some"
                 /\ found.id = Len(directories')
                 /\ directories'[found.id]
                        = IF call'.op = "mkdir"
                          THEN DirNode(parent, Last(names))
                          ELSE FileNode(parent, Last(names),
                                        call'.inode_num)
                 /\ ChildrenIn(directories', found.id) = {}]_vars

\* three calls on plain paths: a file was registered, a directory made,
\* and a create_file below the file was refused
C11_Witness ==
    /\ call.op = "create_file"
    /\ call.path = <<"f", "x">>
    /\ call.result = "parent_is_file"
    /\ \E k \in 1..Len(directories) :
          directories[k] = FileNode(0, "f", 13)
    /\ \E k \in 1..Len(directories) :
          directories[k] = DirNode(0, "a")

\* C12 -- a write_file that returns a path error (path exists, parent
\* missing, parent is a file) has issued no write to the device and has
\* left the block allocator, the inode pool and the inode bitmap as they
\* were before the call.
C12_PathErrorBeforeOutput ==
    [][(call'.op = "write_file" /\ calls' = calls + 1
            /\ ReturnedError(call')) =>
        /\ writer' = writer
        /\ used_blocks' = used_blocks
        /\ inodes' = inodes
        /\ used_inodes' = used_inodes]_vars

\* C13 -- a name longer than 255 bytes is rejected by the staging call that
\* introduces it: the staging tree never holds such a name, so finalize
\* never meets one.
C13_LongNameRejectedAtStaging ==
    \A k \in 1..Len(directories) : Len(directories[k].name) <= 255

\* the number of block groups max_size has descriptors for
GroupLimit == max_bgdt_table_len(max_size)

\* the last call was a finalize that got as far as the size calculation on
\* a device that did not fail
FinalizePlanned ==
    call.op = "finalize" /\ call.result # "io" /\ fin.plan # NoPlan

\* C14 -- a finalize whose layout needs more block groups than max_size has
\* descriptors for returns an error to the caller and writes no superblock;
\* a finalize whose groups fit completes.
C14_TooManyBlockGroupsIsAnError ==
    FinalizePlanned =>
        IF fin.plan.num_block_groups > GroupLimit
        THEN pc = "failed" /\ WritesTagged("superblock") = {}
        ELSE pc = "done"

\* the first i components of the path
Prefix(path, i) == SubSeq(path, 1, i)

\* C15 -- a mkdir_p on a path without empty components whose target does
\* not exist and none of whose prefixes is a file returns Ok; afterwards
\* every prefix of the path and the path itself resolve to a directory; a
\* prefix that existed is the directory it was, a prefix that was missing
\* is a new directory under the previous prefix, and nothing else is new;
\* every directory that existed keeps its previous entries, in their
\* previous order, in front of any new one.
C15_MkdirPCreatesMissingPrefixes ==
    [][(call'.op = "mkdir_p" /\ calls' = calls + 1
            /\ PlainPath(call'.path)
            /\ Resolve(directories, call'.path, 0) = -1
            /\ \A i \in 1..Len(call'.path) :
                  LET e == Resolve(directories, Prefix(call'.path, i), 0)
                  IN  e = -1 \/ directories[e].is_dir) =>
        LET path == call'.path
            before(i) == Resolve(directories, Prefix(path, i), 0)
            after(i) == Resolve(directories', Prefix(path, i), 0)
            missing == {i \in 1..Len(path) : before(i) = -1}
        IN  /\ call'.result = "ok"
            /\ \A i \in 1..Len(path) :
                  /\ after(i) > 0
                  /\ directories'[after(i)].is_dir
                  /\ get_mut(directories', Prefix(path, i))
                         = [res |-> "some", id |-> after(i)]
                  /\ i \notin missing => after(i) = before(i)
                  /\ i \in missing
                        => /\ after(i) > Len(directories)
                           /\ directories'[after(i)]
                                  = DirNode(after(i - 1), path[i])
            /\ Len(directories') = Len(directories) + Cardinality(missing)
            /\ \A d \in 0..Len(directories) :
                  LET old == entries(directories, d)
                  IN  SubSeq(entries(directories', d), 1, Len(old)) = old
            /\ \A k \in 1..Len(directories) :
                  directories'[k] = directories[k]]_vars

\* a mkdir_p of "a/b/c" succeeded where "a" existed, with a file entered
\* after it, and "a/b" did not
C15_Witness ==
    /\ call.op = "mkdir_p"
    /\ call.path = <<"a", "b", "c">>
    /\ call.result = "ok"
    /\ Len(directories) = 5
    /\ directories[2] = DirNode(0, "a")
    /\ ~directories[3].is_dir
    /\ directories[4] = DirNode(2, "b")
    /\ directories[5] = DirNode(4, "c")

\* what the Directory method called op returns for the path
DirectoryCall(op, tree, path, inode) ==
    CASE op = "create_file" -> Directory_create_file(tree, path, inode)
      [] op = "mkdir" -> Directory_mkdir(tree, path)
      [] op = "mkdir_p" -> Directory_mkdir_p(tree, path)

\* C16 -- empty path components are ignored: a create_file, mkdir or
\* mkdir_p returns what it returns, and leaves the tree it leaves, for the
\* same path spelled without its leading, doubled or trailing '/' (so the
\* second spelling of an existing entry fails as a duplicate), and no entry
\* of the tree has an empty name.
C16_EmptyComponentsIgnored ==
    [][(calls' = calls + 1 /\ parts_of(call'.path) # <<>>) =>
        LET plain == DirectoryCall(call'.op, directories,
                                   parts_of(call'.path), call'.inode_num)
        IN  /\ call'.result = plain.res
            /\ directories' = plain.tree
            /\ \A k \in 1..Len(directories') : directories'[k].name # ""]_vars

\* the entries of the directory blocks, one block after the other
RECURSIVE Flattened(_)
Flattened(blocks) ==
    IF blocks = <<>> THEN <<>>
    ELSE Head(blocks).entries \o Flattened(Tail(blocks))

\* an entry that names an inode; the filler of an empty inline area does not
IsRealEntry(e) == e.inode # 0

\* the <<name, inode>> pairs of the real entries emitted for the directory
\* whose inode number is n, in the order of the encoding: the block area
\* and then the xattr area of an inline directory, else the directory
\* blocks one after the other without '.' and '..'
EmittedSequence(n) ==
    LET es == IF inodes[n].i_block.kind = "inline"
              THEN SelectSeq(inodes[n].i_block.content.entries
                                 \o inodes[n].rest.content.entries,
                             IsRealEntry)
              ELSE LET i == CHOOSE i \in WritesTagged("dir") :
                                writer[i].payload.inode_num = n
                       all == Flattened(writer[i].payload.blocks)
                   IN  SubSeq(all, 3, Len(all))
    IN  [i \in 1..Len(es) |-> <<es[i].name, es[i].inode>>]

\* the <<name, inode>> pairs of the entries of directory d of the staging
\* tree, in insertion order
InsertedSequence(d) ==
    LET kids == entries(directories, d)
    IN  [i \in 1..Len(kids) |->
            <<directories[kids[i]].name,
              IF directories[kids[i]].is_dir THEN dir_ino[kids[i]]
              ELSE directories[kids[i]].inode>>]

\* C17 -- after a finalize that completes, the real entries of every
\* directory appear in its encoding (directory blocks in order, or block
\* area then xattr area) in the order in which they were inserted into the
\* staging tree.
C17_InsertionOrder ==
    pc = "done" =>
        \A d \in TreeDirectories :
            EmittedSequence(dir_ino[d]) = InsertedSequence(d)

\* the directory blocks written for the directory whose inode number is n
DirBlocksWritten(n) ==
    {i \in WritesTagged("dir") : writer[i].payload.inode_num = n}

\* the directory entries finalize builds for directory d of the staging
\* tree, '.' and '..' included
EntriesBuilt(d) ==
    LET real == InsertedSequence(d)
        kids == entries(directories, d)
        p == IF d = 0 THEN 2 ELSE dir_ino[directories[d].parent]
    IN  base_entries(dir_ino[d], p)
          \o [i \in 1..Len(real) |->
                Ext4DirEntry_new(real[i][2],
                    IF directories[kids[i]].is_dir THEN "Directory"
                    ELSE "RegularFile",
                    real[i][1])]

\* C18 -- after a finalize that completes, whatever was staged: inode 2 is
\* the root directory and inode 11 is a directory entered in the root as
\* lost+found; lost+found is not inline and has at least one directory
\* block written; every other directory is inline exactly when its entries
\* fit the two inline areas, and has directory blocks written otherwise; a
\* directory without entries, lost+found aside, is inline.
C18_RootAndLostFound ==
    pc = "done" =>
        /\ dir_ino[0] = 2
        /\ is_directory(inodes[2])
        /\ is_directory(inodes[11])
        /\ <<"lost+found", 11>> \in EmittedEntries(2)
        /\ inodes[11].i_block.kind = "extents"
        /\ inodes[11].i_flags = EXT4_EXTENTS_FLAG
        /\ \E i \in DirBlocksWritten(11) : writer[i].n >= 1
        /\ \A d \in TreeDirectories :
              dir_ino[d] # 11 =>
                  /\ inodes[dir_ino[d]].i_block.kind = "inline"
                        <=> create_directory_inode_inline(EntriesBuilt(d)).some
                  /\ inodes[dir_ino[d]].i_block.kind # "inline"
                        => /\ inodes[dir_ino[d]].i_block.kind = "extents"
                           /\ \E i \in DirBlocksWritten(dir_ino[d]) :
                                 writer[i].n >= 1
                  /\ entries(directories, d) = <<>>
                        => inodes[dir_ino[d]].i_block.kind = "inline"

\* a completed image in which lost+found is empty, one other directory is
\* inline and another one has directory blocks
C18_Witness ==
    /\ pc = "done"
    /\ entries(directories, 1) = <<>>
    /\ directories[1].name = "lost+found"
    /\ \E d \in TreeDirectories :
          dir_ino[d] # 11 /\ inodes[dir_ino[d]].i_block.kind = "inline"
    /\ \E d \in TreeDirectories :
          dir_ino[d] # 11 /\ inodes[dir_ino[d]].i_block.kind = "extents"

\* the number of blocks the leaves of an extent tree cover
RECURSIVE BlocksCovered(_)
BlocksCovered(leaves) ==
    IF leaves = <<>> THEN 0
    ELSE Head(leaves).ee_len + BlocksCovered(Tail(leaves))

\* the number of blocks the inode numbered n owns on the device: data or
\* directory blocks reached through its extent tree, and the block holding
\* the leaves when they are not in the inode
BlocksOwned(n) ==
    CASE inodes[n].i_block.kind = "extents"
           -> BlocksCovered(inodes[n].i_block.extents)
      [] inodes[n].i_block.kind = "index"
           -> LET i == CHOOSE i \in WritesTagged("extent") :
                           writer[i].block = inodes[n].i_block.leaf
              IN  BlocksCovered(writer[i].payload.extents) + writer[i].n
      [] inodes[n].i_block.kind = "legacy"
           -> WrittenSuperblock.s_reserved_gdt_blocks + 1
      [] OTHER -> 0

\* C19 -- after a finalize that completes, i_blocks of every inode is 8
\* times the number of blocks it owns: 0 for an inline-data inode and for
\* an unused inode, 8 * ceil(size / 4096) for an inode with its extents
\* inline (files and block-encoded directories), 8 * ceil(size / 4096) + 8
\* for a file with its extents in a block of their own, and
\* 8 * (reserved GDT blocks + 1) for the resize inode, inode 7.
C19_BlocksFieldCountsOwnedBlocks ==
    pc = "done" =>
        \A n \in 1..Len(inodes) :
            LET inode == inodes[n]
                kind == inode.i_block.kind
            IN  /\ inode.i_blocks = 8 * BlocksOwned(n)
                /\ kind \in {"inline", "zero"} => inode.i_blocks = 0
                /\ kind = "extents"
                      => inode.i_blocks
                             = 8 * div_ceil(inode.i_size, BLOCK_SIZE)
                /\ kind = "index"
                      => inode.i_blocks
                             = 8 * div_ceil(inode.i_size, BLOCK_SIZE) + 8
                /\ kind = "legacy" <=> n = 7
                /\ n = 7 => inode.i_blocks
                              = 8 * (WrittenSuperblock.s_reserved_gdt_blocks
                                       + 1)

\* a completed image with reserved descriptor blocks that holds a file
\* with its extents in a block of their own, an inline directory and a
\* block-encoded one
C19_Witness ==
    /\ pc = "done"
    /\ WrittenSuperblock.s_reserved_gdt_blocks > 0
    /\ \E n \in 1..Len(inodes) :
          inodes[n].i_block.kind = "index" /\ inodes[n].i_blocks > 8
    /\ inodes[2].i_block.kind = "inline"
    /\ inodes[11].i_block.kind = "extents"
    /\ inodes[11].i_blocks = 8

\* the inode bitmap written for block_group
WrittenInodeBitmap(block_group) ==
    writer[CHOOSE i \in WritesTagged("inode_bitmap") :
               writer[i].payload.block_group = block_group].payload.bitmap

\* the inodes of the written image whose extents, in the inode, cover the
\* block numbered b
InodesCovering(b) ==
    {n \in 1..Len(inodes) :
        /\ inodes[n].i_block.kind = "extents"
        /\ \E k \in 1..Len(inodes[n].i_block.extents) :
              LET leaf == inodes[n].i_block.extents[k]
              IN  leaf.start <= b /\ b < leaf.start + leaf.ee_len}

\* the inodes of the written image whose extent tree has its leaves in the
\* block numbered b
InodesWithLeavesIn(b) ==
    {n \in 1..Len(inodes) :
        inodes[n].i_block.kind = "index" /\ inodes[n].i_block.leaf = b}

\* the checksums a reader of the image computes from the written bytes:
\* over the object with its checksum field taken as zero (inode, group
\* descriptor) or over the bytes that precede the checksum (directory
\* block, extent block, superblock)
InodeChecksumRead(inode, n) ==
    calculate_checksum(<<n, inode.i_generation,
                         [inode EXCEPT !.i_checksum = zero_checksum]>>)
DescriptorChecksumRead(d, n) ==
    as_u16(calculate_checksum(
               <<n, [d EXCEPT !.bg_checksum = zero_checksum]>>))
DirBlockChecksumRead(block, n) ==
    calculate_checksum(<<n, inodes[n].i_generation, block.entries>>)
ExtentBlockChecksumRead(block, n) ==
    calculate_checksum(<<n, inodes[n].i_generation,
                         block.header, block.extents>>)
SuperblockChecksumRead(superblock) ==
    calculate_checksum(<<covered_by_s_checksum(superblock)>>)

\* C20 -- after a finalize that completes, every checksum stored on the
\* device equals the checksum recomputed from the written bytes, with the
\* checksum field treated as the format prescribes: for every inode of
\* every inode table (which is the inode as finalize left it), for every
\* group descriptor and the two bitmap checksums it carries (against the
\* bitmaps written for that group), for every directory block and every
\* extent block (against the number and generation of the inode that
\* owns the block), and for the superblock.
C20_ChecksumRoundTrip ==
    pc = "done" =>
        /\ \A i \in WritesTagged("inode_table") :
              LET table == writer[i].payload
              IN  \A k \in 1..Len(table.inodes) :
                      LET n == table.first_inode + k - 1
                      IN  /\ table.inodes[k] = inodes[n]
                          /\ table.inodes[k].i_checksum
                                 = InodeChecksumRead(table.inodes[k], n)
        /\ \A g \in 0..(Len(WrittenDescriptors) - 1) :
              LET d == WrittenDescriptors[g + 1]
              IN  /\ d.bg_checksum = DescriptorChecksumRead(d, g)
                  /\ d.bg_block_bitmap_csum
                         = calculate_checksum(<<WrittenBlockBitmap(g).data>>)
                  /\ d.bg_inode_bitmap_csum
                         = calculate_checksum(
                               <<Slice(WrittenInodeBitmap(g).data, 0,
                                       8 * div_ceil(
                                             WrittenSuperblock.s_inodes_per_group,
                                             8))>>)
        /\ \A i \in WritesTagged("dir") :
              \A k \in 1..Len(writer[i].payload.blocks) :
                  LET block == writer[i].payload.blocks[k]
                      owners == InodesCovering(writer[i].block + k - 1)
                  IN  /\ Cardinality(owners) = 1
                      /\ \A n \in owners :
                            block.tail.det_checksum
                                = DirBlockChecksumRead(block, n)
        /\ \A i \in WritesTagged("extent") :
              LET owners == InodesWithLeavesIn(writer[i].block)
              IN  /\ Cardinality(owners) = 1
                  /\ \A n \in owners :
                        writer[i].payload.checksum
                            = ExtentBlockChecksumRead(writer[i].payload, n)
        /\ WrittenSuperblock.s_checksum
               = SuperblockChecksumRead(WrittenSuperblock)

\* a completed image that holds all five kinds of object: more than one
\* group descriptor, a directory in blocks besides lost+found, an extent
\* block, and inodes with and without contents
C20_Witness ==
    /\ pc = "done"
    /\ Len(WrittenDescriptors) > 1
    /\ WritesTagged("extent") # {}
    /\ Cardinality(WritesTagged("dir")) > 1
    /\ WritesTagged("inode_table") # {}
    /\ WrittenSuperblock.s_checksum # zero_checksum
    /\ \E n \in 1..Len(inodes) : inodes[n].i_block.kind = "inline"

\* the first and the last block of every write the device accepted
WrittenEnds ==
    UNION {{writer[i].block, writer[i].block + writer[i].n - 1} :
               i \in 1..Len(writer)}

\* C21 -- after a finalize that completes the image satisfies what a
\* forced file system check reads from it before anything else: the
\* superblock's blocks_count implies as many groups as descriptors and
\* bitmaps were written, its inodes_count is that number of groups times
\* inodes_per_group, and the ends of every extent of blocks the writer
\* wrote are marked in use in the block bitmap written for the group
\* whose range contains them.
C21_FsckClean ==
    pc = "done" =>
        /\ block_groups_count(WrittenSuperblock.blocks_count)
               = Len(WrittenDescriptors)
        /\ EmittedGroups = 0..(Len(WrittenDescriptors) - 1)
        /\ WrittenSuperblock.s_inodes_count
               = Len(WrittenDescriptors) * WrittenSuperblock.s_inodes_per_group
        /\ \A b \in WrittenEnds : SetInWrittenBitmap(b)

\* ceil(I / G), rounded up to a multiple of the 16 inodes of one block
RoundedShare(I, G) ==
    div_ceil(div_ceil(I, G), BLOCK_SIZE \div Ext4Inode_SIZE)
        * (BLOCK_SIZE \div Ext4Inode_SIZE)

\* C22 -- whenever the size calculation of finalize has been applied to I
\* inodes and has arrived at G groups, inodes_per_group is ceil(I / G)
\* rounded up to a multiple of 16, it is at least 16, G * inodes_per_group
\* is at least I, and the assertion that G groups suffice for the inodes
\* holds.
C22_InodesPerGroup ==
    call.op = "size_plan" =>
        LET I == call.inode_num
            G == fin.plan.num_block_groups
        IN  /\ fin.plan.inodes_per_group = RoundedShare(I, G)
            /\ fin.plan.inodes_per_group >= 16
            /\ G * fin.plan.inodes_per_group >= I
            /\ call.result = "ok"

\* the last group that was emitted, and the first block of its range
LastGroup == Len(WrittenDescriptors) - 1
FirstBlockOfLastGroup == LastGroup * s_blocks_per_group

\* C23 -- after a finalize that completes, the block-bitmap snapshot of
\* the last group was taken with blocks_count minus the first block of
\* that group as its number of live bits, which is 32768 and not 0 when
\* blocks_count is a multiple of 32768, and the free count recorded for
\* the group is the number of live bits that are clear.
C23_LastGroupLiveBits ==
    pc = "done" =>
        LET live == WrittenBlockBitmap(LastGroup).len
            blocks_count == WrittenSuperblock.blocks_count
        IN  /\ live = blocks_count - FirstBlockOfLastGroup
            /\ blocks_count % (BLOCK_SIZE * 8) = 0 => live = BLOCK_SIZE * 8
            /\ WrittenDescriptors[LastGroup + 1].free_blocks_count
                   = live - CountBits(WrittenBlockBitmap(LastGroup).data,
                                      0, live)

\* the write at position i of the log ends before the one at j begins
EndsBefore(i, j) == writer[i].block + writer[i].n <= writer[j].block

\* the writes that go to freshly allocated blocks: all but the descriptor
\* table and the superblock
AllocatedWrites == {i \in 1..Len(writer) :
                       writer[i].tag \notin {"gdt", "superblock"}}

\* C24 (as stated) -- the writes are issued in strictly increasing block
\* index, the write of block 0 being the only exception.
C24_WritesInBlockOrder ==
    \A i \in 1..Len(writer) : \A j \in (i + 1)..Len(writer) :
        writer[j].tag # "superblock" => EndsBefore(i, j)

\* C24 (amended) -- the writes to allocated blocks are issued in strictly
\* increasing block index; the descriptor table is written after all of
\* them, at block 1 and below every one of them that lies above block 0;
\* block 0 is written last of all, and no block is written twice.
C24_WritesInBlockOrderButTables ==
    /\ \A i \in AllocatedWrites : \A j \in AllocatedWrites :
          i < j => EndsBefore(i, j)
    /\ \A t \in WritesTagged("gdt") :
          /\ writer[t].block = 1
          /\ \A i \in AllocatedWrites : i < t /\ EndsBefore(t, i)
    /\ \A z \in WritesTagged("superblock") :
          /\ z = Len(writer)
          /\ writer[z].block = 0 /\ writer[z].n = 1
    /\ \A i \in 1..Len(writer) : \A j \in 1..Len(writer) :
          i # j => EndsBefore(i, j) \/ EndsBefore(j, i)

\* a completed image with file data, an extent block, directory blocks and
\* the metadata of more than one group, followed by the descriptor table
\* and the superblock
C24_Witness ==
    /\ pc = "done"
    /\ Len(WrittenDescriptors) > 1
    /\ WritesTagged("data") # {}
    /\ WritesTagged("extent") # {}
    /\ Cardinality(WritesTagged("dir")) > 1
    /\ WritesTagged("gdt") # {}
    /\ writer[Len(writer)].tag = "superblock"

\* the leaves, counted by a header as eh_entries, lay n blocks out as the
\* claim says: leaf i (from 0) has logical start i * 32768, physical start
\* i * 32768 past that of the first leaf, and length
\* min(32768, n - i * 32768)
LeavesPartition(leaves, eh_entries, n) ==
    /\ eh_entries = div_ceil(n, MAX_LEN)
    /\ Len(leaves) = eh_entries
    /\ \A k \in 1..Len(leaves) :
          /\ leaves[k].ee_block = (k - 1) * MAX_LEN
          /\ leaves[k].start = leaves[1].start + (k - 1) * MAX_LEN
          /\ leaves[k].ee_len = Min2(MAX_LEN, n - (k - 1) * MAX_LEN)
          /\ leaves[k].ee_len \in 1..MAX_LEN
    /\ BlocksCovered(leaves) = n

\* the writer wrote, or began to write, n blocks of contents at block start
ContentsWrittenAt(start, n) ==
    \E i \in WritesTagged("data") \cup WritesTagged("dir") :
        writer[i].block = start /\ writer[i].n = n

\* the extent block whose write was accepted at block b
ExtentBlockAt(b) ==
    writer[CHOOSE i \in WritesTagged("extent") : writer[i].block = b].payload

WrittenResizeBlock == CHOOSE i \in WritesTagged("resize") : TRUE

\* the blocks the resize inode's block lists, its leading entry left out
ListedBlocks == Tail(writer[WrittenResizeBlock].payload.entries)

\* GDT_blocks and used as the claim defines them; max_size is held in MiB,
\* so the divisor of 4096 * 4096 * 8 bytes is taken in MiB as well
GDT_blocks ==
    div_ceil(div_ceil(max_size, (4096 * 4096 * 8) \div MiB) * 64, 4096)
UsedByDescriptors == div_ceil(Len(WrittenDescriptors) * 64, 4096)

DirEncoded == call.op = "create_directory_inode" /\ call.result = "none"
EncodedAsBlocks == DirEncoded /\ inodes[12].i_flags = EXT4_EXTENTS_FLAG

\* the directory blocks as they were written
WrittenDirBlocks == writer[1].payload.blocks

\* align4(8 + name_len), the length an entry has before it is extended
align4(n) == ((n + 3) \div 4) * 4
EntryBytes(e) == align4(8 + e.name_len)

\* the bytes the first k entries of a written block take
RECURSIVE BytesBefore(_, _)
BytesBefore(es, k) ==
    IF k = 0 THEN 0 ELSE BytesBefore(es, k - 1) + EntryBytes(es[k])

\* the entries of the written blocks, one block after the other, as
\* (inode, name) pairs
RECURSIVE EntriesInBlocks(_, _)
EntriesInBlocks(blocks, b) ==
    IF b = 0 THEN <<>>
    ELSE EntriesInBlocks(blocks, b - 1)
           \o [k \in 1..Len(blocks[b].entries) |->
                  <<blocks[b].entries[k].inode, blocks[b].entries[k].name>>]

\* the entries given to the encoder, as (inode, name) pairs
EntriesGiven ==
    <<<<12, ".">>, <<2, "..">>>>
      \o [k \in 1..Len(call.path) |-> <<12 + k, call.path[k]>>]

\* every entry is in exactly one block, in input order; the rec_len values
\* of a block's entries sum to 4084, no block is empty, and the trailer is
\* at 4084..4096
BlocksWellFormed(blocks) ==
    /\ Len(writer) = 1 /\ writer[1].tag = "dir" /\ writer[1].n = Len(blocks)
    /\ inodes[12].i_size = Len(blocks) * BLOCK_SIZE
    /\ EntriesInBlocks(blocks, Len(blocks)) = EntriesGiven
    /\ \A b \in 1..Len(blocks) :
          /\ Len(blocks[b].entries) >= 1
          /\ SumSeq([k \in 1..Len(blocks[b].entries) |->
                        blocks[b].entries[k].rec_len]) = 4084
          /\ \A k \in 1..Len(blocks[b].entries) :
                blocks[b].entries[k].rec_len >= EntryBytes(blocks[b].entries[k])
          /\ blocks[b].tail.offset = 4084
          /\ blocks[b].tail.offset + blocks[b].tail.det_rec_len = 4096

\* a block other than the first starts with an entry that, with spare
\* further bytes, would not have ended at or before byte 4084 of the block
\* before it
StartedOnlyWhenFull(blocks, spare) ==
    \A b \in 2..Len(blocks) :
        BytesBefore(blocks[b - 1].entries, Len(blocks[b - 1].entries))
            + EntryBytes(blocks[b].entries[1]) + spare > 4084

\* every entry of a block but its first ends, with spare further bytes, at
\* or before byte 4084
KeptWhileRoom(blocks, spare) ==
    \A b \in 1..Len(blocks) :
        \A k \in 2..Len(blocks[b].entries) :
            BytesBefore(blocks[b].entries, k) + spare <= 4084

\* C27 -- a directory encoded as linear blocks has every entry, '.' and
\* '..' included, in exactly one block and in input order, a new block
\* being started only when the next entry does not fit before the trailer;
\* the rec_len values of each block sum to 4084, no block is empty of
\* entries, and the trailer occupies bytes 4084..4096.
C27_LinearBlocks ==
    EncodedAsBlocks =>
        /\ BlocksWellFormed(WrittenDirBlocks)
        /\ StartedOnlyWhenFull(WrittenDirBlocks, 0)

\* C27 as the code has it -- the same, a new block being started exactly
\* when the next entry and 8 further bytes do not fit before the trailer.
C27_LinearBlocksWithSpare ==
    EncodedAsBlocks =>
        /\ BlocksWellFormed(WrittenDirBlocks)
        /\ StartedOnlyWhenFull(WrittenDirBlocks, Ext4DirEntryMeta_SIZE)
        /\ KeptWhileRoom(WrittenDirBlocks, Ext4DirEntryMeta_SIZE)

\* a directory of two blocks, the first filled up to byte 3984 and the
\* second started by an entry of 96 bytes
C27_Witness ==
    /\ EncodedAsBlocks
    /\ Len(WrittenDirBlocks) = 2
    /\ BytesBefore(WrittenDirBlocks[1].entries,
                   Len(WrittenDirBlocks[1].entries)) = 3984
    /\ EntryBytes(WrittenDirBlocks[2].entries[1]) = 96


\* the directory was encoded inline
EncodedInline == DirEncoded /\ inodes[12].i_flags = EXT4_INLINE_DATA_FL

\* the bytes of the children's entries, align4(8 + name_len) each
ChildBytes == [k \in 1..Len(call.path) |-> align4(8 + Len(call.path[k]))]

\* the entries from the k-th on can be placed one after the other, each in
\* the block area if it fits there and else in the xattr area, an entry
\* fitting an area when the bytes placed there, the entry and spare further
\* bytes do not exceed the area's limit
RECURSIVE CanBePlaced(_, _, _, _, _, _, _)
CanBePlaced(bytes, k, in_block, in_xattr, block_limit, xattr_limit, spare) ==
    IF k > Len(bytes) THEN TRUE
    ELSE IF in_block + bytes[k] + spare <= block_limit
    THEN CanBePlaced(bytes, k + 1, in_block + bytes[k], in_xattr,
                     block_limit, xattr_limit, spare)
    ELSE IF in_xattr + bytes[k] + spare <= xattr_limit
    THEN CanBePlaced(bytes, k + 1, in_block, in_xattr + bytes[k],
                     block_limit, xattr_limit, spare)
    ELSE FALSE

InodeAllocated(n) == BitIsSet(used_inodes.data, n - 1)

\* the allocated inode numbers among those of block_group
AllocatedIn(block_group) ==
    {n \in (block_group * WrittenSuperblock.s_inodes_per_group + 1)
              .. ((block_group + 1) * WrittenSuperblock.s_inodes_per_group) :
        InodeAllocated(n)}

\* the number of allocated inodes
AllocatedInodes == CountBits(used_inodes.data, 0, BitsPerBlock)

\* C29 -- after finalize, for every emitted group g and every index
\* i < inodes_per_group, bit i of the inode bitmap written for g is set
\* exactly when inode g * inodes_per_group + i + 1 was allocated; the free
\* inodes count of each descriptor, and that of the superblock as their
\* sum, is the number of inodes minus the number of allocated ones, also
\* when allocated inodes fall into a group other than group 0.
C29_InodeBitmapMatchesAllocation ==
    pc = "done" =>
        LET ipg == WrittenSuperblock.s_inodes_per_group
            G == Len(WrittenDescriptors)
        IN  /\ \A g \in 0..(G - 1) :
                  /\ \A i \in 0..(ipg - 1) :
                        BitIsSet(WrittenInodeBitmap(g).data, i)
                            <=> InodeAllocated(g * ipg + i + 1)
                  /\ WrittenDescriptors[g + 1].free_inodes_count
                         = ipg - Cardinality(AllocatedIn(g))
            /\ WrittenSuperblock.s_free_inodes_count
                   = G * ipg - AllocatedInodes


\* ------------------------------------------------------- the inode numbers

\* the files of the staging tree and the inode numbers they were given
TreeFiles == {f \in 1..Len(directories) : ~directories[f].is_dir}
FileNumbers == {directories[f].inode : f \in TreeFiles}

\* the top-level directories called lost+found
TopLostFound ==
    {d \in ChildDirectories(0) : directories[d].name = "lost+found"}

\* the directories below d and d itself in depth-first pre-order, the
\* entries of a directory being visited in the order of their insertion
RECURSIVE PreOrder(_, _)
RECURSIVE PreOrderOfKids(_, _, _)
PreOrderOfKids(tree, kids, i) ==
    IF i > Len(kids) THEN <<>>
    ELSE (IF tree[kids[i]].is_dir THEN PreOrder(tree, kids[i]) ELSE <<>>)
           \o PreOrderOfKids(tree, kids, i + 1)
PreOrder(tree, d) == <<d>> \o PreOrderOfKids(tree, entries(tree, d), 1)

\* the directories that get their number from the allocator, in the order
\* of the walk
IsAllocatedDirectory(d) == d # 0 /\ d \notin TopLostFound
OtherDirectories == SelectSeq(PreOrder(directories, 0), IsAllocatedDirectory)

\* while staging: the inodes 1 .. Len(inodes) are the allocated ones, 11 of
\* them after new, and the files of the tree have distinct numbers above 11
StagedNumbers ==
    pc = "staging" =>
        /\ Len(inodes) >= 11
        /\ call.op = "new" => Len(inodes) = 11
        /\ used_inodes.data = {<<0, Len(inodes)>>}
        /\ FileNumbers \subseteq 12..Len(inodes)
        /\ Cardinality(FileNumbers) = Cardinality(TreeFiles)

\* a write_file call gets the number after the last one and leaves the
\* records of the other inodes as they were; mkdir and mkdir_p allocate
\* nothing. With 11 inodes after new, the k-th write_file call gets 11 + k.
StagingStep ==
    /\ (calls' = calls + 1 /\ call'.op = "write_file") =>
          /\ call'.inode_num = Len(inodes) + 1
          /\ Len(inodes') = Len(inodes) + 1
          /\ \A n \in 1..Len(inodes) : inodes'[n] = inodes[n]
    /\ (calls' = calls + 1 /\ call'.op \in {"mkdir", "mkdir_p"}) =>
          inodes' = inodes /\ used_inodes' = used_inodes

\* a finalize that completes: the root is 2, the top-level lost+found 11,
\* the other directories get the numbers after the last file's in the order
\* of the walk; no number is shared, and the records of the files are the
\* staged ones (their checksum filled in) while each directory's number
\* holds the record of a directory
FinalizeStep ==
    (pc = "staging" /\ pc' = "done") =>
        LET N == Len(inodes)
        IN  /\ DOMAIN dir_ino' = TreeDirectories
            /\ dir_ino'[0] = 2
            /\ \A d \in TopLostFound : dir_ino'[d] = 11
            /\ \A k \in 1..Len(OtherDirectories) :
                  dir_ino'[OtherDirectories[k]] = N + k
            /\ \A d \in TreeDirectories :
                  /\ IsAllocatedDirectory(d) =>
                        \A n \in FileNumbers : dir_ino'[d] > n
                  /\ dir_ino'[d] \notin FileNumbers
                  /\ is_directory(inodes'[dir_ino'[d]])
                  /\ \A e \in TreeDirectories \ {d} : dir_ino'[e] # dir_ino'[d]
            /\ \A n \in 12..N :
                  /\ ~is_directory(inodes'[n])
                  /\ [inodes'[n] EXCEPT !.i_checksum = zero_checksum]
                         = inodes[n]
            /\ used_inodes'.data = {<<0, N + Len(OtherDirectories)>>}

\* C30 -- inode numbers are assigned injectively: new reserves 1..11, the
\* k-th write_file call gets 11 + k, the root is 2, the top-level lost+found
\* is 11, every other directory gets during finalize a fresh number greater
\* than every file's, in depth-first pre-order of insertion; no two staged
\* files or directories share a number and no record written for one of
\* them is overwritten by another.
C30_InodeNumbers ==
    /\ []StagedNumbers
    /\ [][StagingStep /\ FinalizeStep]_vars

\* a completed image with a file (inode 12) and a directory (13) holding a
\* directory (14)
C30_Witness ==
    /\ pc = "done"
    /\ FileNumbers = {12}
    /\ \E d \in TreeDirectories :
          /\ dir_ino[d] = 14
          /\ directories[d].parent # 0
          /\ dir_ino[directories[d].parent] = 13

====
